---- MODULE Spec2Model ----
(***************************************************************************)
(* Model of the Oracle dialect of SQLAlchemy                               *)
(* (lib/sqlalchemy/dialects/oracle/base.py): the identifier case folding   *)
(* of OracleDialect (normalize_name / denormalize_name) and the select     *)
(* rewriting of OracleCompiler (visit_select, visit_join,                  *)
(* _get_nonansi_join_whereclause).                                         *)
(***************************************************************************)
EXTENDS Integers, Sequences, FiniteSets, TLC

VARIABLES
    name,        \* the identifier first handed to the dialect
    ident,       \* the current value, after the calls made so far
    calls,       \* the calls made so far: "normalize" / "denormalize"
    heap,        \* the objects (selects and binary expressions) by identity
    stmt,        \* identity of the caller's select, handed to visit_select
    saved,       \* the caller's objects as they were before the compile call
    select,      \* visit_select's local variable `select`, an identity
    dialect,     \* [use_ansi, optimize_limits]
    pc,          \* position of the visit_select call
    phases,      \* the phases the call has gone through, in order
    emitted,     \* the select handed to SQLCompiler.visit_select
    text,        \* the tokens SQLCompiler.visit_select returned
    catalog,     \* the rows of Oracle's data dictionary views
    call,        \* the reflection or DDL method called and its arguments
    ret,         \* what the call returned or raised
    warnings,    \* the warnings the call gave to util.warn, in order
    rpc,         \* position of the call: "called", "returned", "raised"
    history,     \* what the earlier calls of the same method returned
    _FILTERS,    \* assertions._FILTERS: <<>> for None, or <<the list>>
    _SEEN,       \* assertions._SEEN: <<>> for None, or <<the set>>
    _EXC_CLS,    \* assertions._EXC_CLS: <<>> for None, or <<the tuple>>
    blocks,      \* the _expect_warnings blocks entered and not left
    exc,         \* the exception on its way up, "" when there is none
    given,       \* the messages given to the blocks, each with its assert_
    unseen       \* the messages the last "not seen" assertion names

vars == <<name, ident, calls, heap, stmt, saved, select, dialect, pc, phases,
          emitted, text, catalog, call, ret, warnings, rpc, history,
          _FILTERS, _SEEN, _EXC_CLS, blocks, exc, given, unseen>>

nameVars == <<name, ident, calls>>

reflectVars == <<catalog, call, ret, warnings, rpc, history>>

warnVars == <<_FILTERS, _SEEN, _EXC_CLS, blocks, exc, given, unseen>>

(***************************************************************************)
(* Bounds of the model.                                                    *)
(***************************************************************************)
MaxNameLen == 3
MaxCalls == 2
MaxLimit == 2
MaxOffset == 2
MaxSize == 6
MaxColumns == 3
MaxRows == 3
MaxDepth == 2
MaxFilters == 2
MaxEntered == 3
MaxQueries == 3
MaxRepeats == 2

Range(s) == {s[i] : i \in DOMAIN s}

\* F of the value of v: v is computed once, however often F uses it
With(v, F(_)) == CHOOSE r \in {F(x) : x \in {v}} : TRUE

(***************************************************************************)
(* Identifiers.  A Python string is its type (str or unicode) and its      *)
(* characters; None is the value of type NoneType.                         *)
(***************************************************************************)
LowerLetters == {"a", "s"}
UpperLetters == {"A", "S"}
Digits == {"1"}
Chars == LowerLetters \cup UpperLetters \cup Digits \cup {"_", "$", "-"}

SeqsUpTo(S, n) == UNION {[1..k -> S] : k \in 0..n}

Names == SeqsUpTo(Chars, MaxNameLen)

None == [type |-> "NoneType", chars |-> <<>>]
Str(cs) == [type |-> "str", chars |-> cs]
Unicode(cs) == [type |-> "unicode", chars |-> cs]

\* str.lower() / str.upper(): letters change case, other characters stay.
lower_char(c) ==
    CASE c = "A" -> "a"
      [] c = "S" -> "s"
      [] OTHER -> c

upper_char(c) ==
    CASE c = "a" -> "A"
      [] c = "s" -> "S"
      [] OTHER -> c

lower(cs) == [i \in DOMAIN cs |-> lower_char(cs[i])]
upper(cs) == [i \in DOMAIN cs |-> upper_char(cs[i])]

\* x == y of Python 2 on two strings: a str and a unicode of ASCII
\* characters are equal when their characters are; None equals only None.
PyEq(x, y) ==
    IF x.type = "NoneType" \/ y.type = "NoneType"
    THEN x.type = y.type
    ELSE x.chars = y.chars

\* RESERVED_WORDS, the words that can be written with Chars.
RESERVED_WORDS == {<<"A", "S">>}

\* OracleIdentifierPreparer.reserved_words
reserved_words == {lower(w) : w \in RESERVED_WORDS}

\* OracleIdentifierPreparer.illegal_initial_characters, r'[0-9_$]'
illegal_initial_characters == Digits \cup {"_", "$"}

\* IdentifierPreparer.legal_characters: letters of either case, digits,
\* underscore and the currency symbol.
legal_characters == LowerLetters \cup UpperLetters \cup Digits \cup {"_", "$"}

\* IdentifierPreparer._requires_quotes(value): a reserved word whatever its
\* case, an illegal initial character, or a character outside the legal set.
_requires_quotes(value) ==
    \/ lower(value) \in reserved_words
    \/ (Len(value) > 0 /\ value[1] \in illegal_initial_characters)
    \/ \E i \in DOMAIN value : value[i] \notin legal_characters

\* An exception raised in the place of a value returned.
IndexError == [type |-> "IndexError", chars |-> <<>>]

\* value[0] in the test of the initial character, written as
\* OracleIdentifierPreparer._bindparam_requires_quotes writes it: the
\* reserved words are looked up first, then value[0] is read, and the empty
\* string has no character 0.
_requires_quotes_raises(value) ==
    value \notin reserved_words /\ Len(value) = 0

\* normalize_name that never folds
normalize_name_unfolded(n) ==
    IF n.type = "NoneType" THEN None
    ELSE Unicode(n.chars)

\* normalize_name that folds without asking _requires_quotes
normalize_name_unchecked(n) ==
    IF n.type = "NoneType" THEN None
    ELSE IF upper(n.chars) = n.chars
         THEN Unicode(lower(n.chars))
         ELSE Unicode(n.chars)

\* OracleDialect.normalize_name
normalize_name(n) ==
    IF n.type = "NoneType" THEN None
    ELSE IF upper(n.chars) = n.chars /\ _requires_quotes_raises(lower(n.chars))
    THEN IndexError
    ELSE IF upper(n.chars) = n.chars /\ ~_requires_quotes(lower(n.chars))
         THEN Unicode(lower(n.chars))
         ELSE Unicode(n.chars)

\* denormalize_name that never folds
denormalize_name_unfolded(n) ==
    IF n.type = "NoneType" THEN None
    ELSE Str(n.chars)

\* OracleDialect.denormalize_name
denormalize_name(n) ==
    IF n.type = "NoneType" THEN None
    ELSE IF lower(n.chars) = n.chars /\ _requires_quotes_raises(lower(n.chars))
    THEN IndexError
    ELSE IF lower(n.chars) = n.chars /\ ~_requires_quotes(lower(n.chars))
         THEN Str(upper(n.chars))
         ELSE Str(n.chars)

compileVars == <<heap, stmt, saved, select, dialect, pc, phases, emitted, text>>

NameInit ==
    /\ name \in {None} \cup {Str(cs) : cs \in Names}
    /\ ident = name
    /\ calls = <<>>

NormalizeName ==
    /\ Len(calls) < MaxCalls
    /\ ident # IndexError
    /\ ident' = normalize_name(ident)
    /\ calls' = Append(calls, "normalize")
    /\ UNCHANGED name
    /\ UNCHANGED compileVars
    /\ UNCHANGED reflectVars
    /\ UNCHANGED warnVars

DenormalizeName ==
    /\ Len(calls) < MaxCalls
    /\ ident # IndexError
    /\ ident' = denormalize_name(ident)
    /\ calls' = Append(calls, "denormalize")
    /\ UNCHANGED name
    /\ UNCHANGED compileVars
    /\ UNCHANGED reflectVars
    /\ UNCHANGED warnVars

(***************************************************************************)
(* The expression tree.  Selects and binary expressions are objects: they  *)
(* live in the heap and are referred to by identity (their index), so that *)
(* an attribute assignment is seen through every reference to the object.  *)
(* Tables, columns, labels, bind parameters and joins are never assigned   *)
(* to by the compiler and are plain values.                                *)
(***************************************************************************)
Table(n) == [kind |-> "table", name |-> n]
Column(t, n) == [kind |-> "column", table |-> t, name |-> n]
\* sql.literal_column(text): a column clause of no table
literal_column(t) == Column("None", t)
Label(n, e) == [kind |-> "label", name |-> n, element |-> e]
BindParam(v) == [kind |-> "bindparam", value |-> v]
Binary(op, l, r) == [kind |-> "binary", operator |-> op, left |-> l, right |-> r]
Join(l, r, on, outer) ==
    [kind |-> "join", left |-> l, right |-> r, onclause |-> on, isouter |-> outer]
Subquery(id) == [kind |-> "select", id |-> id]

\* class _OuterJoinColumn
_OuterJoinColumn(column) == [kind |-> "outer_join_column", column |-> column]

\* An optional integer (_limit, _offset): <<>> is None, <<n>> is n.
NoInt == <<>>
Some(n) == <<n>>
IsNone(o) == Len(o) = 0

Select(cols, froms, where, limit, offset) ==
    [kind |-> "select", columns |-> cols, froms |-> froms,
     whereclause |-> where, prefixes |-> <<>>,
     _limit |-> limit, _offset |-> offset,
     _oracle_visit |-> FALSE, _is_wrapper |-> FALSE]

\* b.table is f: the column's table is the very FROM element f
table_is(c, f) == c.kind = "column" /\ f.kind = "table" /\ c.table = f.name

(***************************************************************************)
(* The statements a caller hands to the compiler.                          *)
(***************************************************************************)
A_id == Column("A", "id")
A_name == Column("A", "name")
B_a_id == Column("B", "a_id")
C_id == Column("C", "id")

Operands == {A_id, B_a_id, C_id, literal_column("5")}
Operators == {"eq", "gt"}
Binaries == {Binary(op, l, r) : op \in Operators, l \in Operands, r \in Operands}

\* ON clauses: one predicate, or the conjunction of one with B.a_id > A.id
OnClauses ==
    {<<b>> : b \in Binaries}
        \cup {<<b, Binary("gt", B_a_id, A_id)>> : b \in {Binary("eq", A_id, B_a_id)}}

ColumnLists == {<<A_id>>, <<A_id, A_name, B_a_id>>}
WhereClauses == {<<>>, <<Binary("gt", A_id, literal_column("5"))>>}
Limits == {NoInt} \cup {Some(n) : n \in 0..MaxLimit}
Offsets == {NoInt} \cup {Some(n) : n \in 0..MaxOffset}

\* FROM lists: A;  A JOIN B ON on;  (A JOIN B ON A.id = B.a_id) JOIN C ON on
Shapes ==
    {[form |-> "table"]}
        \cup {[form |-> "join", on |-> on, isouter |-> o] :
                on \in OnClauses, o \in BOOLEAN}
        \cup {[form |-> "nested", inner |-> i, on |-> <<b>>, isouter |-> o] :
                i \in BOOLEAN, b \in Binaries, o \in BOOLEAN}

Ids(from, n) == [i \in 1..n |-> from + i]

ShapeBinaries(sh) ==
    CASE sh.form = "table" -> <<>>
      [] sh.form = "join" -> sh.on
      [] sh.form = "nested" -> <<Binary("eq", A_id, B_a_id)>> \o sh.on

\* the FROM list of a shape whose binaries lie in the heap after index `at`
ShapeFroms(sh, at) ==
    CASE sh.form = "table" -> <<Table("A")>>
      [] sh.form = "join" ->
            <<Join(Table("A"), Table("B"), Ids(at, Len(sh.on)), sh.isouter)>>
      [] sh.form = "nested" ->
            <<Join(Join(Table("A"), Table("B"), Ids(at, 1), sh.inner),
                   Table("C"), Ids(at + 1, Len(sh.on)), sh.isouter)>>

\* the heap of a caller's statement: the select at 1, then the binaries of
\* its WHERE clause, then those of its ON clauses
Statement(cols, sh, where, limit, offset) ==
    <<Select(cols, ShapeFroms(sh, 1 + Len(where)), Ids(1, Len(where)),
             limit, offset)>>
        \o where \o ShapeBinaries(sh)

(***************************************************************************)
(* OracleCompiler._get_nonansi_join_whereclause                            *)
(***************************************************************************)
\* visitors.traverse(f, {}, {'join': visit_join}): the joins of a FROM
\* element, the join itself before the joins nested in it
RECURSIVE traverse(_)
traverse(f) ==
    IF f.kind = "join"
    THEN <<f>> \o traverse(f.left) \o traverse(f.right)
    ELSE <<>>

\* visit_binary that wraps the operand of join.left
visit_binary_left(binary, join) ==
    IF binary.operator = "eq"
    THEN IF table_is(binary.left, join.left)
         THEN [binary EXCEPT !.left = _OuterJoinColumn(binary.left)]
         ELSE IF table_is(binary.right, join.left)
              THEN [binary EXCEPT !.right = _OuterJoinColumn(binary.right)]
              ELSE binary
    ELSE binary

\* visit_binary that does not look at the operator
visit_binary_any_operator(binary, join) ==
    IF table_is(binary.left, join.right)
    THEN [binary EXCEPT !.left = _OuterJoinColumn(binary.left)]
    ELSE IF table_is(binary.right, join.right)
         THEN [binary EXCEPT !.right = _OuterJoinColumn(binary.right)]
         ELSE binary

\* visit_binary, nested in visit_join: the binary with its operand of
\* join.right wrapped, when its operator is eq
visit_binary(binary, join) ==
    IF binary.operator = "eq"
    THEN IF table_is(binary.left, join.right)
         THEN [binary EXCEPT !.left = _OuterJoinColumn(binary.left)]
         ELSE IF table_is(binary.right, join.right)
              THEN [binary EXCEPT !.right = _OuterJoinColumn(binary.right)]
              ELSE binary
    ELSE binary

\* visitors.traverse in the place of cloned_traverse: visit_binary acts on
\* the binaries of the clause themselves
cloned_traverse_in_place(h, onclause, join) ==
    [heap |-> [i \in DOMAIN h |->
                  IF i \in Range(onclause) THEN visit_binary(h[i], join)
                  ELSE h[i]],
     clause |-> onclause]

\* visitors.cloned_traverse(join.onclause, {}, {'binary': visit_binary}):
\* every binary of the clause is copied and visit_binary acts on the copy
cloned_traverse(h, onclause, join) ==
    [heap |-> h \o [i \in DOMAIN onclause |-> visit_binary(h[onclause[i]], join)],
     clause |-> Ids(Len(h), Len(onclause))]

\* visit_join that collects the ON clauses of the outer joins only
nonansi_visit_join_outer_only(st, join) ==
    IF join.isouter
    THEN LET ct == cloned_traverse(st.heap, join.onclause, join)
         IN  [heap |-> ct.heap, clauses |-> st.clauses \o ct.clause]
    ELSE st

\* visit_join, nested in _get_nonansi_join_whereclause; st is [heap, clauses]
nonansi_visit_join(st, join) ==
    IF join.isouter
    THEN LET ct == cloned_traverse(st.heap, join.onclause, join)
         IN  [heap |-> ct.heap, clauses |-> st.clauses \o ct.clause]
    ELSE [heap |-> st.heap, clauses |-> st.clauses \o join.onclause]

RECURSIVE visit_joins(_, _)
visit_joins(st, joins) ==
    IF joins = <<>> THEN st
    ELSE With(nonansi_visit_join(st, Head(joins)),
              LAMBDA st1 : visit_joins(st1, Tail(joins)))

RECURSIVE all_joins(_)
all_joins(froms) ==
    IF froms = <<>> THEN <<>>
    ELSE traverse(Head(froms)) \o all_joins(Tail(froms))

\* returns [heap, clauses]: clauses is sql.and_(*clauses), the empty
\* conjunction being false as a condition
_get_nonansi_join_whereclause(h, froms) ==
    visit_joins([heap |-> h, clauses |-> <<>>], all_joins(froms))

(***************************************************************************)
(* OracleCompiler.visit_select, the two rewrites.  Each returns            *)
(* [heap, select]: the heap after it and the new value of `select`.        *)
(***************************************************************************)
\* select._generate(): a new object with the same attributes
_generate(h, s) == [heap |-> Append(h, h[s]), select |-> Len(h) + 1]

\* select.where(whereclause): generative, the copy gets the conjunction
where(h, s, whereclause) ==
    LET g == _generate(h, s)
    IN  [heap |-> [g.heap EXCEPT ![g.select].whereclause = @ \o whereclause],
         select |-> g.select]

\* the join rewrite that leaves its copy of the select unmarked
JoinRewriteOf_unmarked(h, s) ==
    LET froms == h[s].froms
        Applied(w) == IF w.clauses # <<>>
                      THEN where(w.heap, s, w.clauses)
                      ELSE [heap |-> w.heap, select |-> s]
    IN  With(_get_nonansi_join_whereclause(h, froms), Applied)

\* lines 348-358
JoinRewriteOf(h, s) ==
    LET froms == h[s].froms
        Marked(r) == [heap |-> [r.heap EXCEPT ![r.select]._oracle_visit = TRUE],
                      select |-> r.select]
        Applied(w) == IF w.clauses # <<>>
                      THEN With(where(w.heap, s, w.clauses), Marked)
                      ELSE [heap |-> w.heap, select |-> s]
    IN  With(_get_nonansi_join_whereclause(h, froms), Applied)

\* c.key
key(c) == c.name

\* select.c: the columns a select exports, as columns of that select
c(sel) == [i \in DOMAIN sel.columns |-> Column("select", key(sel.columns[i]))]

Wrapper(cols, inner) ==
    [Select(cols, <<Subquery(inner)>>, <<>>, NoInt, NoInt)
        EXCEPT !._oracle_visit = TRUE, !._is_wrapper = TRUE]

\* a limit taken for set whenever it is not None
Truthy_when_not_none(o) == ~IsNone(o)

\* select._limit as a condition: None and 0 are false
Truthy(o) == ~IsNone(o) /\ o[1] # 0

\* "/*+ FIRST_ROWS(%d) */" % select._limit
FirstRows(n) == "/*+ FIRST_ROWS(" \o ToString(n) \o ") */"

SelectIf(seq, Keep(_)) ==
    LET RECURSIVE F(_)
        F(s) == IF s = <<>> THEN <<>>
                ELSE IF Keep(Head(s)) THEN <<Head(s)>> \o F(Tail(s))
                     ELSE F(Tail(s))
    IN  F(seq)

NotOraRn(col) == key(col) # "ora_rn"

\* the limit wrapper that bounds ROWNUM by the offset when there is no limit
LimitSelectOf_bounded_by_offset(h, s, d) ==
    LET g == _generate(h, s)
        h1 == [g.heap EXCEPT ![g.select]._oracle_visit = TRUE]
        sel == h1[g.select]
        ls == Len(h1) + 1
        limitselect ==
            [Wrapper(c(sel), g.select) EXCEPT
                !.prefixes = IF Truthy(sel._limit) /\ d.optimize_limits
                             THEN <<FirstRows(sel._limit[1])>> ELSE <<>>]
        h2 == Append(h1, limitselect)
        max_row == (IF IsNone(sel._limit) THEN 0 ELSE sel._limit[1])
                     + (IF IsNone(sel._offset) THEN 0 ELSE sel._offset[1])
    IN  [heap |-> [Append(h2, Binary("le", literal_column("ROWNUM"),
                                      BindParam(max_row)))
                        EXCEPT ![ls].whereclause = @ \o <<Len(h2) + 1>>],
         select |-> ls]

\* lines 372-389: the copy of the select and the limit wrapper around it
LimitSelectOf(h, s, d) ==
    LET g == _generate(h, s)
        h1 == [g.heap EXCEPT ![g.select]._oracle_visit = TRUE]
        sel == h1[g.select]
        ls == Len(h1) + 1
        limitselect ==
            [Wrapper(c(sel), g.select) EXCEPT
                !.prefixes = IF Truthy(sel._limit) /\ d.optimize_limits
                             THEN <<FirstRows(sel._limit[1])>> ELSE <<>>]
        h2 == Append(h1, limitselect)
        max_row == sel._limit[1]
                     + (IF IsNone(sel._offset) THEN 0 ELSE sel._offset[1])
    IN  IF IsNone(sel._limit)
        THEN [heap |-> h2, select |-> ls]
        ELSE [heap |-> [Append(h2, Binary("le", literal_column("ROWNUM"),
                                          BindParam(max_row)))
                            EXCEPT ![ls].whereclause = @ \o <<Len(h2) + 1>>],
              select |-> ls]

\* the offset wrapper selecting every column of the limit wrapper, ora_rn
\* included
OffsetSelectOf_with_ora_rn(h, ls, offset) ==
    LET g == _generate(h, ls)
        h1 == [g.heap EXCEPT
                 ![g.select].columns =
                     Append(@, Label("ora_rn", literal_column("ROWNUM"))),
                 ![g.select]._oracle_visit = TRUE,
                 ![g.select]._is_wrapper = TRUE]
        offsetselect == Wrapper(c(h1[g.select]), g.select)
        h2 == Append(h1, offsetselect)
        os == Len(h2)
    IN  [heap |-> [Append(h2, Binary("gt", literal_column("ora_rn"),
                                      BindParam(offset)))
                        EXCEPT ![os].whereclause = @ \o <<Len(h2) + 1>>],
         select |-> os]

\* lines 392-408: the offset wrapper, when there is an offset
OffsetSelectOf(h, ls, offset) ==
    LET \* limitselect.column(...) is generative
        g == _generate(h, ls)
        h1 == [g.heap EXCEPT
                 ![g.select].columns =
                     Append(@, Label("ora_rn", literal_column("ROWNUM"))),
                 ![g.select]._oracle_visit = TRUE,
                 ![g.select]._is_wrapper = TRUE]
        offsetselect == Wrapper(SelectIf(c(h1[g.select]), NotOraRn), g.select)
        h2 == Append(h1, offsetselect)
        os == Len(h2)
    IN  [heap |-> [Append(h2, Binary("gt", literal_column("ora_rn"),
                                      BindParam(offset)))
                        EXCEPT ![os].whereclause = @ \o <<Len(h2) + 1>>],
         select |-> os]

\* the pagination that adds the offset wrapper without asking for an offset
PaginationRewriteOf_always_offset(h, s, d) ==
    LET Wrapped(l) ==
            OffsetSelectOf(l.heap, l.select,
                           IF IsNone(h[s]._offset) THEN 0 ELSE h[s]._offset[1])
    IN  With(LimitSelectOf(h, s, d), Wrapped)

\* lines 360-408
PaginationRewriteOf(h, s, d) ==
    LET Wrapped(l) == IF IsNone(h[s]._offset)
                      THEN l
                      ELSE OffsetSelectOf(l.heap, l.select, h[s]._offset[1])
    IN  With(LimitSelectOf(h, s, d), Wrapped)

\* lines 347-408: what visit_select makes of a select before it hands it
\* to the base compiler
Rewrite(h, s, d) ==
    IF h[s]._oracle_visit THEN [heap |-> h, select |-> s]
    ELSE LET Paginated(j) ==
                 IF ~IsNone(j.heap[j.select]._limit)
                      \/ ~IsNone(j.heap[j.select]._offset)
                 THEN PaginationRewriteOf(j.heap, j.select, d)
                 ELSE j
         IN  With(IF d.use_ansi THEN [heap |-> h, select |-> s]
                  ELSE JoinRewriteOf(h, s),
                  Paginated)

(***************************************************************************)
(* Rendering.  The text is a sequence of tokens.                           *)
(***************************************************************************)
OperatorText(op) ==
    CASE op = "eq" -> "="
      [] op = "gt" -> ">"
      [] op = "le" -> "<="

RECURSIVE process(_)
RECURSIVE visit_outer_join_column(_)

process(e) ==
    CASE e.kind = "column" ->
            IF e.table \in {"None", "select"} THEN <<e.name>>
            ELSE <<e.table \o "." \o e.name>>
      [] e.kind = "outer_join_column" -> visit_outer_join_column(e)
      [] e.kind = "label" -> process(e.element) \o <<"AS", e.name>>
      [] e.kind = "bindparam" -> <<ToString(e.value)>>

\* OracleCompiler.visit_outer_join_column
visit_outer_join_column(vc) == <<process(vc.column)[1] \o "(+)">>

\* OracleCompiler.default_from
default_from == <<"FROM", "DUAL">>

\* OracleCompiler.limit_clause
limit_clause(sel) == <<>>

visit_binary_text(b) == process(b.left) \o <<OperatorText(b.operator)>> \o process(b.right)

RECURSIVE Joined(_, _, _)
Joined(h, ids, sep) ==
    IF ids = <<>> THEN <<>>
    ELSE IF Len(ids) = 1 THEN visit_binary_text(h[ids[1]])
         ELSE visit_binary_text(h[ids[1]]) \o <<sep>> \o Joined(h, Tail(ids), sep)

RECURSIVE Columns(_)
Columns(cols) ==
    IF cols = <<>> THEN <<>>
    ELSE IF Len(cols) = 1 THEN process(cols[1])
         ELSE process(cols[1]) \o <<",">> \o Columns(Tail(cols))

RECURSIVE visit_from(_, _, _)
RECURSIVE visit_froms(_, _, _)
RECURSIVE visit_join(_, _, _)
RECURSIVE SQLCompiler_visit_join(_, _, _)
RECURSIVE SQLCompiler_visit_select(_, _, _)
RECURSIVE visit_select(_, _, _)

\* compiler.SQLCompiler.visit_join: the ANSI rendering
SQLCompiler_visit_join(h, join, d) ==
    visit_from(h, join.left, d)
        \o (IF join.isouter THEN <<"LEFT OUTER JOIN">> ELSE <<"JOIN">>)
        \o visit_from(h, join.right, d)
        \o <<"ON">> \o Joined(h, join.onclause, "AND")

\* OracleCompiler.visit_join
visit_join(h, join, d) ==
    IF d.use_ansi
    THEN SQLCompiler_visit_join(h, join, d)
    ELSE visit_from(h, join.left, d) \o <<",">> \o visit_from(h, join.right, d)

\* self.process(f, asfrom=True) of a FROM element
visit_from(h, f, d) ==
    CASE f.kind = "table" -> <<f.name>>
      [] f.kind = "join" -> visit_join(h, f, d)
      [] f.kind = "select" -> <<"(">> \o visit_select(h, f.id, d) \o <<")">>

visit_froms(h, froms, d) ==
    IF froms = <<>> THEN <<>>
    ELSE IF Len(froms) = 1 THEN visit_from(h, froms[1], d)
         ELSE visit_from(h, froms[1], d) \o <<",">> \o visit_froms(h, Tail(froms), d)

\* compiler.SQLCompiler.visit_select: SELECT, the prefixes, the columns,
\* the FROM list or default_from(), the WHERE clause, limit_clause()
SQLCompiler_visit_select(h, s, d) ==
    LET sel == h[s]
    IN  <<"SELECT">> \o sel.prefixes \o Columns(sel.columns)
            \o (IF sel.froms = <<>> THEN default_from
                ELSE <<"FROM">> \o visit_froms(h, sel.froms, d))
            \o (IF sel.whereclause = <<>> THEN <<>>
                ELSE <<"WHERE">> \o Joined(h, sel.whereclause, "AND"))
            \o limit_clause(sel)

\* OracleCompiler.visit_select, as the base compiler calls it on a select
\* nested in the one it renders
visit_select(h, s, d) ==
    LET Rendered(r) == SQLCompiler_visit_select(r.heap, r.select, d)
    IN  With(Rewrite(h, s, d), Rendered)

(***************************************************************************)
(* One visit_select call, step by step.                                    *)
(***************************************************************************)
CompileInitOver(shapes) ==
    \E cols \in ColumnLists, sh \in shapes, w \in WhereClauses,
       l \in Limits, o \in Offsets :
        /\ heap = Statement(cols, sh, w, l, o)
        /\ stmt = 1
        /\ saved = heap
        /\ select = 1
        /\ dialect \in [use_ansi : BOOLEAN, optimize_limits : BOOLEAN]
        /\ pc = "start"
        /\ phases = <<"Start">>
        /\ emitted = 0
        /\ text = <<>>

HasLimitOrOffset(sel) == ~IsNone(sel._limit) \/ ~IsNone(sel._offset)

\* the call going to the join rewrite whatever use_ansi is
Start_ignoring_use_ansi ==
    /\ pc = "start"
    /\ pc' = IF heap[select]._oracle_visit THEN "emit" ELSE "join_rewrite"
    /\ UNCHANGED <<heap, stmt, saved, select, dialect, phases, emitted, text>>
    /\ UNCHANGED nameVars
    /\ UNCHANGED reflectVars
    /\ UNCHANGED warnVars

\* line 347 and line 348: where the call goes first
Start ==
    /\ pc = "start"
    /\ pc' = IF heap[select]._oracle_visit THEN "emit"
             ELSE IF ~dialect.use_ansi THEN "join_rewrite"
             ELSE IF HasLimitOrOffset(heap[select]) THEN "pagination_rewrite"
             ELSE "emit"
    /\ UNCHANGED <<heap, stmt, saved, select, dialect, phases, emitted, text>>
    /\ UNCHANGED nameVars
    /\ UNCHANGED reflectVars
    /\ UNCHANGED warnVars

\* lines 349-358
JoinRewrite ==
    /\ pc = "join_rewrite"
    /\ \E r \in {JoinRewriteOf(heap, select)} :
          /\ heap' = r.heap
          /\ select' = r.select
          /\ pc' = IF HasLimitOrOffset(r.heap[r.select])
                   THEN "pagination_rewrite" ELSE "emit"
    /\ phases' = Append(phases, "JoinRewrite")
    /\ UNCHANGED <<stmt, saved, dialect, emitted, text>>
    /\ UNCHANGED nameVars
    /\ UNCHANGED reflectVars
    /\ UNCHANGED warnVars

\* lines 360-408
PaginationRewrite ==
    /\ pc = "pagination_rewrite"
    /\ \E r \in {PaginationRewriteOf(heap, select, dialect)} :
          /\ heap' = r.heap
          /\ select' = r.select
    /\ pc' = "emit"
    /\ phases' = Append(phases, "PaginationRewrite")
    /\ UNCHANGED <<stmt, saved, dialect, emitted, text>>
    /\ UNCHANGED nameVars
    /\ UNCHANGED reflectVars
    /\ UNCHANGED warnVars

\* lines 410-411
Emit ==
    /\ pc = "emit"
    /\ emitted' = select
    /\ text' = SQLCompiler_visit_select(heap, select, dialect)
    /\ pc' = "done"
    /\ phases' = Append(phases, "Emit")
    /\ UNCHANGED <<heap, stmt, saved, select, dialect>>
    /\ UNCHANGED nameVars
    /\ UNCHANGED reflectVars
    /\ UNCHANGED warnVars

(***************************************************************************)
(* Reflection.  The data dictionary is the rows of its views, each field a *)
(* Python value: a str, None, or an optional integer.  A method returns    *)
(* [raised, value, warnings]: raised is "" when it returned.               *)
(***************************************************************************)
Returned(v, w) == [raised |-> "", value |-> v, warnings |-> w]
Raised(e, w) == [raised |-> e, value |-> <<>>, warnings |-> w]

\* a name as a condition: None and the empty string are false
NameTruthy(n) == n.type # "NoneType" /\ n.chars # <<>>

\* column = :parameter in a WHERE clause: never true of a null
SqlEq(x, y) == x.type # "NoneType" /\ y.type # "NoneType" /\ x.chars = y.chars

RECURSIVE Concat(_)
Concat(tokens) ==
    IF tokens = <<>> THEN "" ELSE Head(tokens) \o Concat(Tail(tokens))

\* a type of sqlalchemy.types: the class itself (called = FALSE) or an
\* instance made by calling it with arguments
TypeClass(n) == [name |-> n, called |-> FALSE, args |-> <<>>]
TypeOf(n, args) == [name |-> n, called |-> TRUE, args |-> args]

sqltypes_NUMERIC == TypeClass("NUMERIC")
sqltypes_INTEGER == TypeClass("INTEGER")
NULLTYPE == TypeOf("NullType", <<>>)

\* ischema_names
ischema_names ==
    [n \in {"VARCHAR2", "NVARCHAR2", "CHAR", "DATE", "DATETIME", "NUMBER",
            "BLOB", "BFILE", "CLOB", "NCLOB", "TIMESTAMP", "RAW", "FLOAT",
            "DOUBLE PRECISION", "LONG"} |->
        TypeClass(CASE n = "VARCHAR2" -> "VARCHAR"
                    [] n = "NVARCHAR2" -> "NVARCHAR"
                    [] n = "DOUBLE PRECISION" -> "DOUBLE_PRECISION"
                    [] OTHER -> n)]

\* the size tokens "(n)" a native type name is written with
SizeTokens == {"(" \o ToString(n) \o ")" : n \in 0..MaxSize}

NotSizeToken(t) == t \notin SizeTokens

\* re.sub(r'\(\d+\)', '', coltype), coltype being its tokens
re_sub_size(tokens) == SelectSeq(tokens, NotSizeToken)

(***************************************************************************)
(* OracleTypeCompiler.  A type is rendered as the tokens of its native     *)
(* name.  Integer is TypeOf("INTEGER", <<>>), Numeric(p, s) is             *)
(* TypeOf("NUMERIC", <<p, s>>), CHAR(n) is TypeOf("CHAR", <<n>>), Float(p) *)
(* is TypeOf("FLOAT", <<p>>).                                              *)
(***************************************************************************)
Shown(o) == IF IsNone(o) THEN "None" ELSE ToString(o[1])

\* GenericTypeCompiler.visit_INTEGER, visit_NUMERIC and visit_CHAR, which
\* OracleTypeCompiler inherits
visit_INTEGER(type_) == <<"INTEGER">>

visit_NUMERIC(type_) ==
    IF IsNone(type_.args[1]) THEN <<"NUMERIC">>
    ELSE <<"NUMERIC",
           "(" \o Shown(type_.args[1]) \o ", " \o Shown(type_.args[2]) \o ")">>

visit_CHAR(type_) == <<"CHAR", "(" \o Shown(type_.args[1]) \o ")">>

\* OracleTypeCompiler.visit_float
visit_float(type_) ==
    IF IsNone(type_.args[1]) THEN <<"NUMERIC">>
    ELSE <<"NUMERIC", "(" \o Shown(type_.args[1]) \o ", " \o "2" \o ")">>

\* OracleTypeCompiler.visit_VARCHAR
visit_VARCHAR(type_) == <<"VARCHAR", "(" \o Shown(type_.args[1]) \o ")">>

\* TypeCompiler.process(type_): the visit method of the type
type_compiler_process(type_) ==
    CASE type_.name = "INTEGER" -> visit_INTEGER(type_)
      [] type_.name = "NUMERIC" -> visit_NUMERIC(type_)
      [] type_.name = "CHAR" -> visit_CHAR(type_)
      [] type_.name = "FLOAT" -> visit_float(type_)
      [] type_.name = "VARCHAR" -> visit_VARCHAR(type_)

\* _resolve_synonym that takes the first row, an owner given or not
_resolve_synonym_first_row(cat, desired_owner, desired_synonym, desired_table) ==
    LET Match(r) ==
            /\ NameTruthy(desired_synonym) => SqlEq(r.SYNONYM_NAME, desired_synonym)
            /\ NameTruthy(desired_owner) => SqlEq(r.TABLE_OWNER, desired_owner)
            /\ NameTruthy(desired_table) => SqlEq(r.TABLE_NAME, desired_table)
        rows == SelectSeq(cat.ALL_SYNONYMS, Match)
        Tuple(row) == <<row.TABLE_NAME, row.TABLE_OWNER, row.DB_LINK,
                        row.SYNONYM_NAME>>
        NotFound == <<None, None, None, None>>
    IN  IF ~NameTruthy(desired_synonym) /\ ~NameTruthy(desired_owner)
             /\ ~NameTruthy(desired_table)
        THEN Raised("DatabaseError", <<>>)
        ELSE Returned(IF rows # <<>> THEN Tuple(rows[1]) ELSE NotFound, <<>>)

\* OracleDialect._resolve_synonym
_resolve_synonym(cat, desired_owner, desired_synonym, desired_table) ==
    LET Match(r) ==
            /\ NameTruthy(desired_synonym) => SqlEq(r.SYNONYM_NAME, desired_synonym)
            /\ NameTruthy(desired_owner) => SqlEq(r.TABLE_OWNER, desired_owner)
            /\ NameTruthy(desired_table) => SqlEq(r.TABLE_NAME, desired_table)
        rows == SelectSeq(cat.ALL_SYNONYMS, Match)
        Tuple(row) == <<row.TABLE_NAME, row.TABLE_OWNER, row.DB_LINK,
                        row.SYNONYM_NAME>>
        NotFound == <<None, None, None, None>>
    IN  IF ~NameTruthy(desired_synonym) /\ ~NameTruthy(desired_owner)
             /\ ~NameTruthy(desired_table)
        THEN \* the statement ends in WHERE
             Raised("DatabaseError", <<>>)
        ELSE IF NameTruthy(desired_owner)
        THEN Returned(IF rows # <<>> THEN Tuple(rows[1]) ELSE NotFound, <<>>)
        ELSE IF Len(rows) > 1 THEN Raised("AssertionError", <<>>)
        ELSE IF Len(rows) = 1 THEN Returned(Tuple(rows[1]), <<>>)
        ELSE Returned(NotFound, <<>>)

\* OracleDialect.get_default_schema_name
get_default_schema_name(cat) == normalize_name(cat.USER)

\* _prepare_reflection_args that leaves the synonym's owner out
_prepare_reflection_args_own_schema(cat, table_name, schema, resolve_synonyms, dblink) ==
    LET Prepared(t) ==
            [table_name |-> IF NameTruthy(t[1]) THEN t[1]
                            ELSE denormalize_name(table_name),
             owner |-> denormalize_name(IF NameTruthy(schema) THEN schema
                                        ELSE get_default_schema_name(cat)),
             dblink |-> IF NameTruthy(t[3]) THEN t[3] ELSE Str(<<>>),
             synonym |-> t[4]]
        Resolved(r) == IF r.raised # "" THEN r
                       ELSE Returned(Prepared(r.value), <<>>)
    IN  IF resolve_synonyms
        THEN With(_resolve_synonym(cat, denormalize_name(schema),
                                   denormalize_name(table_name), None),
                  Resolved)
        ELSE Returned(Prepared(<<None, None, None, None>>), <<>>)

\* OracleDialect._prepare_reflection_args; the value is
\* [table_name, owner, dblink, synonym]
_prepare_reflection_args(cat, table_name, schema, resolve_synonyms, dblink) ==
    LET Prepared(t) ==
            [table_name |-> IF NameTruthy(t[1]) THEN t[1]
                            ELSE denormalize_name(table_name),
             owner |-> IF NameTruthy(t[2]) THEN t[2]
                       ELSE denormalize_name(IF NameTruthy(schema) THEN schema
                                             ELSE get_default_schema_name(cat)),
             dblink |-> IF NameTruthy(t[3]) THEN t[3] ELSE Str(<<>>),
             synonym |-> t[4]]
        Resolved(r) == IF r.raised # "" THEN r
                       ELSE Returned(Prepared(r.value), <<>>)
    IN  IF resolve_synonyms
        THEN With(_resolve_synonym(cat, denormalize_name(schema),
                                   denormalize_name(table_name), None),
                  Resolved)
        ELSE Returned(Prepared(<<None, None, None, None>>), <<>>)

\* connection.execute of a query on a view: the local view, or the view
\* read through a database link, which the dictionary of the linked
\* database answers or which fails
execute(cat, view, dblink) ==
    IF dblink.chars = <<>> THEN Returned(cat[view], <<>>)
    ELSE IF cat.LINKED.raised # "" THEN Raised(cat.LINKED.raised, <<>>)
    ELSE Returned(cat.LINKED[view], <<>>)

\* the type of a NUMBER column without the INTEGER case
number_type_never_integer(precision, scale) ==
    IF IsNone(precision) /\ IsNone(scale) THEN sqltypes_NUMERIC
    ELSE TypeOf("NUMERIC", <<precision, scale>>)

\* the type of a NUMBER column that looks at the scale alone
number_type_by_scale(precision, scale) ==
    IF IsNone(precision) /\ IsNone(scale) THEN sqltypes_NUMERIC
    ELSE IF scale = Some(0) THEN sqltypes_INTEGER
    ELSE TypeOf("NUMERIC", <<precision, scale>>)

\* lines 661-666: the type of a NUMBER column
number_type(precision, scale) ==
    IF IsNone(precision) /\ IsNone(scale) THEN sqltypes_NUMERIC
    ELSE IF IsNone(precision) /\ scale = Some(0) THEN sqltypes_INTEGER
    ELSE TypeOf("NUMERIC", <<precision, scale>>)

\* lines 652-684: the entry made of one row and the warnings given for it
column_of(row) ==
    LET colname == normalize_name(row.COLUMN_NAME)
        coltype == Concat(row.DATA_TYPE)
        stripped == Concat(re_sub_size(row.DATA_TYPE))
        sized == coltype = "CHAR" \/ coltype = "VARCHAR2"
        known == stripped \in DOMAIN ischema_names
        type ==
            IF coltype = "NUMBER"
            THEN number_type(row.DATA_PRECISION, row.DATA_SCALE)
            ELSE IF sized
            THEN TypeOf(ischema_names[coltype].name, <<row.DATA_LENGTH>>)
            ELSE IF known THEN ischema_names[stripped]
            ELSE NULLTYPE
    IN  [cdict |-> [name |-> colname, type |-> type,
                    nullable |-> (row.NULLABLE = "Y"),
                    default |-> row.DATA_DEFAULT],
         warnings |-> IF coltype # "NUMBER" /\ ~sized /\ ~known
                      THEN <<[text |-> "Did not recognize type",
                              type |-> stripped, column |-> colname]>>
                      ELSE <<>>]

\* lines 650-685: the loop over the rows; st is [columns, warnings]
RECURSIVE columns_of(_, _)

\* the loop leaving out the rows it gave a warning for
columns_of_recognized(st, rows) ==
    IF rows = <<>> THEN st
    ELSE LET e == column_of(Head(rows))
         IN  columns_of([columns |-> IF e.warnings = <<>>
                                     THEN Append(st.columns, e.cdict)
                                     ELSE st.columns,
                         warnings |-> st.warnings \o e.warnings],
                        Tail(rows))

columns_of(st, rows) ==
    IF rows = <<>> THEN st
    ELSE LET e == column_of(Head(rows))
         IN  columns_of([columns |-> Append(st.columns, e.cdict),
                         warnings |-> st.warnings \o e.warnings],
                        Tail(rows))

\* OracleDialect.get_columns; kw is [oracle_resolve_synonyms, dblink]
get_columns(cat, table_name, schema, kw) ==
    LET Columns_(rows) ==
            LET st == columns_of([columns |-> <<>>, warnings |-> <<>>], rows)
            IN  Returned(st.columns, st.warnings)
        Selected(a) ==
            LET Match(row) == /\ SqlEq(row.TABLE_NAME, a.table_name)
                              /\ SqlEq(row.OWNER, a.owner)
                q == execute(cat, "ALL_TAB_COLUMNS", a.dblink)
            IN  IF q.raised # "" THEN q
                ELSE Columns_(SelectSeq(q.value, Match))
        Prepared(r) == IF r.raised # "" THEN r ELSE Selected(r.value)
    IN  With(_prepare_reflection_args(cat, table_name, schema,
                                      kw.oracle_resolve_synonyms, kw.dblink),
             Prepared)
\* OracleDialect._get_constraint_data: the rows of the query, each
\* [constraint_name, constraint_type, local_column, remote_table,
\* remote_column, remote_owner]; ALL_CONSTRAINTS holds the rows of the join
\* with the table and owner of the constraint
_get_constraint_data(cat, table_name, schema, dblink) ==
    LET Match(row) == /\ SqlEq(row.table_name, table_name)
                      /\ row.constraint_type \in {"R", "P"}
                      /\ SqlEq(row.owner, schema)
        q == execute(cat, "ALL_CONSTRAINTS", dblink)
    IN  IF q.raised # "" THEN q
        ELSE Returned(SelectSeq(q.value, Match), <<>>)

\* OracleDialect.get_primary_keys
get_primary_keys(cat, table_name, schema, kw) ==
    LET IsP(row) == row.constraint_type = "P"
        Local(rows) ==
            [i \in DOMAIN rows |-> normalize_name(rows[i].local_column)]
        Keys(cd) == IF cd.raised # "" THEN cd
                    ELSE Returned(Local(SelectSeq(cd.value, IsP)), <<>>)
        Prepared(r) ==
            IF r.raised # "" THEN r
            ELSE With(_get_constraint_data(cat, r.value.table_name,
                                           r.value.owner, r.value.dblink),
                      Keys)
    IN  With(_prepare_reflection_args(cat, table_name, schema,
                                      kw.oracle_resolve_synonyms, kw.dblink),
             Prepared)

\* get_foreign_keys.fkey_rec
fkey_rec ==
    [name |-> None, constrained_columns |-> <<>>, referred_schema |-> None,
     referred_table |-> None, referred_columns |-> <<>>]

\* a lookup that gives a new record each time
fkeys_getitem_new(fkeys, cons_name) == fkey_rec

\* fkeys[cons_name] of util.defaultdict(fkey_rec)
fkeys_getitem(fkeys, cons_name) ==
    IF cons_name \in DOMAIN fkeys THEN fkeys[cons_name] ELSE fkey_rec

\* a null remote table taken for a table
remote_table_is_none_never(remote_table) == FALSE

\* line 836: remote_table is None
remote_table_is_none(remote_table) == remote_table = None

\* line 835: cons_type == 'R'
is_foreign_key_row(row) == row.constraint_type = "R"

\* lines 831-866: one turn of the loop over constraint_data; st is
\* [fkeys, warnings, raised], env the locals the loop reads
foreign_key_row(st, row, env) ==
    LET cons_name == row.constraint_name
        local_column == normalize_name(row.local_column)
        remote_table == normalize_name(row.remote_table)
        remote_column == normalize_name(row.remote_column)
        remote_owner == normalize_name(row.remote_owner)
        rec == fkeys_getitem(st.fkeys, cons_name)
        first == ~NameTruthy(rec.referred_table)
        syn == IF first /\ env.resolve_synonyms
               THEN _resolve_synonym(env.cat, denormalize_name(remote_owner),
                                     None, denormalize_name(remote_table))
               ELSE Returned(<<None, None, None, None>>, <<>>)
        found == NameTruthy(syn.value[4])
        table == IF found THEN normalize_name(syn.value[4]) ELSE remote_table
        owner == IF found THEN normalize_name(syn.value[2]) ELSE remote_owner
        named == [rec EXCEPT !.name = cons_name]
        referred ==
            IF ~first THEN named
            ELSE [named EXCEPT
                    !.referred_table = table,
                    !.referred_schema =
                        IF env.requested_schema.type # "NoneType"
                             \/ ~PyEq(denormalize_name(owner), env.schema)
                        THEN owner ELSE @]
        folded == [referred EXCEPT
                    !.constrained_columns = Append(@, local_column),
                    !.referred_columns = Append(@, remote_column)]
    IN  IF st.raised # "" \/ ~is_foreign_key_row(row) THEN st
        ELSE IF remote_table_is_none(remote_table)
        THEN [st EXCEPT !.warnings =
                Append(@, [text |-> "Got 'None' querying 'table_name' from all_cons_columns",
                           dblink |-> env.dblink])]
        ELSE IF syn.raised # "" THEN [st EXCEPT !.raised = syn.raised]
        ELSE [st EXCEPT !.fkeys =
                [k \in DOMAIN st.fkeys \cup {cons_name} |->
                    IF k = cons_name THEN folded ELSE st.fkeys[k]]]

RECURSIVE foreign_keys_of(_, _, _)
foreign_keys_of(st, rows, env) ==
    IF rows = <<>> THEN st
    ELSE foreign_keys_of(foreign_key_row(st, Head(rows), env), Tail(rows), env)

\* fkeys.values(): the records, in no order the code decides
values(fkeys) == {fkeys[k] : k \in DOMAIN fkeys}

\* OracleDialect.get_foreign_keys
get_foreign_keys(cat, table_name, schema, kw) ==
    LET Env(a) == [cat |-> cat, requested_schema |-> schema,
                   schema |-> a.owner, dblink |-> a.dblink,
                   resolve_synonyms |-> kw.oracle_resolve_synonyms]
        Looped(st) == IF st.raised # "" THEN Raised(st.raised, st.warnings)
                      ELSE Returned(values(st.fkeys), st.warnings)
        Keys(a, cd) ==
            IF cd.raised # "" THEN cd
            ELSE With(foreign_keys_of([fkeys |-> [k \in {} |-> fkey_rec],
                                       warnings |-> <<>>, raised |-> ""],
                                      cd.value, Env(a)),
                      Looped)
        Prepared(r) ==
            IF r.raised # "" THEN r
            ELSE Keys(r.value,
                      _get_constraint_data(cat, r.value.table_name,
                                           r.value.owner, r.value.dblink))
    IN  With(_prepare_reflection_args(cat, table_name, schema,
                                      kw.oracle_resolve_synonyms, kw.dblink),
             Prepared)

\* s.upper() of a string
str_upper(s) == [s EXCEPT !.chars = upper(@)]

\* lines 719-728: one turn of the loop over the rows of the indexes; st is
\* [indexes, last_index_name]
index_row(st, rset, pkeys) ==
    LET n == Len(st.indexes)
        started ==
            IF ~PyEq(rset.INDEX_NAME, st.last_index_name)
            THEN Append(st.indexes,
                        [name |-> normalize_name(rset.INDEX_NAME),
                         column_names |-> <<>>, unique |-> FALSE])
            ELSE st.indexes
        m == Len(started)
    IN  IF \E i \in DOMAIN pkeys : PyEq(rset.COLUMN_NAME, str_upper(pkeys[i]))
        THEN st
        ELSE [indexes |->
                 [started EXCEPT
                    ![m].unique = (rset.UNIQUENESS = "UNIQUE"),
                    ![m].column_names =
                        Append(@, normalize_name(rset.COLUMN_NAME))],
              last_index_name |-> rset.INDEX_NAME]

RECURSIVE indexes_of(_, _, _)
indexes_of(st, rows, pkeys) ==
    IF rows = <<>> THEN st
    ELSE indexes_of(index_row(st, Head(rows), pkeys), Tail(rows), pkeys)

\* OracleDialect.get_indexes
get_indexes(cat, table_name, schema, resolve_synonyms, dblink) ==
    LET Indexes(rows, pkeys) ==
            IF pkeys.raised # "" THEN pkeys
            ELSE Returned(indexes_of([indexes |-> <<>>,
                                      last_index_name |-> None],
                                     rows, pkeys.value).indexes, <<>>)
        Selected(a, q) ==
            LET Match(row) ==
                    /\ SqlEq(row.TABLE_NAME, denormalize_name(a.table_name))
                    /\ SqlEq(row.TABLE_OWNER, denormalize_name(a.owner))
            IN  IF q.raised # "" THEN q
                ELSE Indexes(SelectSeq(q.value, Match),
                             get_primary_keys(cat, a.table_name, a.owner,
                                 [oracle_resolve_synonyms |-> FALSE,
                                  dblink |-> a.dblink]))
        Prepared(r) ==
            IF r.raised # "" THEN r
            ELSE Selected(r.value, execute(cat, "ALL_IND_COLUMNS", r.value.dblink))
    IN  With(_prepare_reflection_args(cat, table_name, schema,
                                      resolve_synonyms, dblink),
             Prepared)

\* define_constraint_cascades that renders the onupdate as well
define_constraint_cascades_onupdate(constraint) ==
    LET ondelete == IF ~IsNone(constraint.ondelete)
                    THEN <<" ON DELETE ", constraint.ondelete[1]>> ELSE <<>>
        onupdate == IF ~IsNone(constraint.onupdate)
                    THEN <<" ON UPDATE ", constraint.onupdate[1]>> ELSE <<>>
    IN  Returned(ondelete \o onupdate, <<>>)

\* OracleDDLCompiler.define_constraint_cascades; the text is its pieces, and
\* ondelete and onupdate are <<>> for None or <<value>>
define_constraint_cascades(constraint) ==
    LET rendered == IF ~IsNone(constraint.ondelete)
                    THEN <<" ON DELETE ", constraint.ondelete[1]>> ELSE <<>>
    IN  Returned(rendered,
                 IF ~IsNone(constraint.onupdate)
                 THEN <<[text |-> "Oracle does not contain native UPDATE CASCADE functionality - onupdates will not be rendered for foreign keys. Consider using deferrable=True, initially='deferred' or triggers."]>>
                 ELSE <<>>)

(***************************************************************************)
(* The methods that look a name up or list names.  A row of ALL_TABLES is  *)
(* [TABLE_NAME, OWNER, TABLESPACE_NAME], of ALL_SEQUENCES [SEQUENCE_NAME,  *)
(* SEQUENCE_OWNER], of ALL_USERS [USERNAME, ORACLE_MAINTAINED], of         *)
(* ALL_VIEWS [VIEW_NAME, OWNER, TEXT]; a tablespace or a text is <<>> for   *)
(* null or <<value>>.                                                      *)
(***************************************************************************)
\* lines 506-507, 601, 612, 617: schema or self.get_default_schema_name()
schema_or_default(cat, schema) ==
    IF NameTruthy(schema) THEN schema ELSE get_default_schema_name(cat)

\* OracleDialect.has_table
has_table(cat, table_name, schema) ==
    LET Match(row) ==
            /\ SqlEq(row.TABLE_NAME, denormalize_name(table_name))
            /\ SqlEq(row.OWNER,
                     denormalize_name(schema_or_default(cat, schema)))
    IN  Returned(SelectSeq(cat.ALL_TABLES, Match) # <<>>, <<>>)

\* OracleDialect.has_sequence
has_sequence(cat, sequence_name, schema) ==
    LET Match(row) ==
            /\ SqlEq(row.SEQUENCE_NAME, denormalize_name(sequence_name))
            /\ SqlEq(row.SEQUENCE_OWNER,
                     denormalize_name(schema_or_default(cat, schema)))
    IN  Returned(SelectSeq(cat.ALL_SEQUENCES, Match) # <<>>, <<>>)

\* nvl(tablespace_name, 'no tablespace') NOT IN ('SYSTEM', 'SYSAUX')
not_in_system_tablespace(row) ==
    IsNone(row.TABLESPACE_NAME)
        \/ row.TABLESPACE_NAME[1] \notin {"SYSTEM", "SYSAUX"}

\* table_names that lists the tables of every tablespace
table_names_of_every_tablespace(cat, schema) ==
    LET Match(row) ==
            schema.type # "NoneType"
                => SqlEq(row.OWNER, denormalize_name(schema))
        rows == SelectSeq(cat.ALL_TABLES, Match)
    IN  Returned([i \in DOMAIN rows |-> normalize_name(rows[i].TABLE_NAME)],
                 <<>>)

\* OracleDialect.table_names
table_names(cat, schema) ==
    LET Match(row) ==
            /\ not_in_system_tablespace(row)
            /\ schema.type # "NoneType"
                  => SqlEq(row.OWNER, denormalize_name(schema))
        rows == SelectSeq(cat.ALL_TABLES, Match)
    IN  Returned([i \in DOMAIN rows |-> normalize_name(rows[i].TABLE_NAME)],
                 <<>>)

\* OracleDialect.get_schema_names; ORDER BY username is the order of the
\* rows of ALL_USERS
get_schema_names(cat) ==
    Returned([i \in DOMAIN cat.ALL_USERS |->
                 normalize_name(cat.ALL_USERS[i].USERNAME)], <<>>)

\* OracleDialect.get_table_names
get_table_names(cat, schema) ==
    table_names(cat, denormalize_name(schema_or_default(cat, schema)))

\* OracleDialect.get_view_names
get_view_names(cat, schema) ==
    LET owner == denormalize_name(schema_or_default(cat, schema))
        Match(row) == SqlEq(row.OWNER, denormalize_name(owner))
        rows == SelectSeq(cat.ALL_VIEWS, Match)
    IN  Returned([i \in DOMAIN rows |-> normalize_name(rows[i].VIEW_NAME)],
                 <<>>)

\* OracleDialect.get_view_definition: the text decoded, or None for no row,
\* a null or an empty text
get_view_definition(cat, view_name, schema, resolve_synonyms, dblink) ==
    LET Text(a) ==
            LET Match(row) == /\ SqlEq(row.OWNER, a.owner)
                              /\ SqlEq(row.VIEW_NAME, a.table_name)
                rows == SelectSeq(cat.ALL_VIEWS, Match)
                rp == IF rows = <<>> THEN <<>> ELSE rows[1].TEXT
            IN  Returned(IF ~IsNone(rp) /\ rp[1] # ""
                         THEN [type |-> "unicode", text |-> rp[1]]
                         ELSE None, <<>>)
        Prepared(r) == IF r.raised # "" THEN r ELSE Text(r.value)
    IN  With(_prepare_reflection_args(cat, view_name, schema,
                                      resolve_synonyms, dblink),
             Prepared)

(***************************************************************************)
(* The statements a method executes, in the order it executes them.  A     *)
(* statement is its verb, the view it reads, the database link written     *)
(* after the view's name and the parameters bound.                         *)
(***************************************************************************)
Select_(view, dblink, params) ==
    [verb |-> "SELECT", view |-> view, dblink |-> dblink, params |-> params]

NoLink == Str(<<>>)

\* line 534: 'SELECT USER FROM DUAL'
queries_get_default_schema_name == <<Select_("DUAL", NoLink, <<>>)>>

\* lines 506-507, 601, 612, 617: the statement of the default schema, when
\* no schema is given
queries_schema_or_default(schema) ==
    IF NameTruthy(schema) THEN <<>> ELSE queries_get_default_schema_name

\* lines 554-571: the statement of _resolve_synonym
queries__resolve_synonym(desired_owner, desired_synonym, desired_table) ==
    <<Select_("ALL_SYNONYMS", NoLink,
              [synonym_name |-> desired_synonym,
               desired_owner |-> desired_owner, tname |-> desired_table])>>

\* lines 592-601: the statements of _prepare_reflection_args
queries__prepare_reflection_args(cat, table_name, schema, resolve_synonyms, dblink) ==
    LET syn == IF resolve_synonyms
               THEN _resolve_synonym(cat, denormalize_name(schema),
                                     denormalize_name(table_name), None)
               ELSE Returned(<<None, None, None, None>>, <<>>)
        asked == IF resolve_synonyms
                 THEN queries__resolve_synonym(denormalize_name(schema),
                                               denormalize_name(table_name),
                                               None)
                 ELSE <<>>
    IN  IF syn.raised # "" THEN asked
        ELSE IF NameTruthy(syn.value[2]) THEN asked
        ELSE asked \o queries_schema_or_default(schema)

\* line 508
queries_has_table(cat, table_name, schema) ==
    queries_schema_or_default(schema)
        \o <<Select_("ALL_TABLES", NoLink,
                     [name |-> denormalize_name(table_name),
                      schema_name |->
                          denormalize_name(schema_or_default(cat, schema))])>>

\* line 514
queries_has_sequence(cat, sequence_name, schema) ==
    queries_schema_or_default(schema)
        \o <<Select_("ALL_SEQUENCES", NoLink,
                     [name |-> denormalize_name(sequence_name),
                      schema_name |->
                          denormalize_name(schema_or_default(cat, schema))])>>

\* lines 538-543
queries_table_names(schema) ==
    <<Select_("ALL_TABLES", NoLink,
              IF schema.type = "NoneType" THEN <<>>
              ELSE [owner |-> denormalize_name(schema)])>>

\* line 607
queries_get_schema_names == <<Select_("ALL_USERS", NoLink, <<>>)>>

\* lines 612-613
queries_get_table_names(cat, schema) ==
    queries_schema_or_default(schema)
        \o queries_table_names(
               denormalize_name(schema_or_default(cat, schema)))

\* lines 617-620
queries_get_view_names(cat, schema) ==
    queries_schema_or_default(schema)
        \o <<Select_("ALL_VIEWS", NoLink,
                     [owner |-> denormalize_name(denormalize_name(
                                    schema_or_default(cat, schema)))])>>

\* the statements of a method that prepares its arguments and then reads
\* one view with them
queries_prepared(cat, table_name, schema, resolve_synonyms, dblink, view, linked) ==
    LET a == _prepare_reflection_args(cat, table_name, schema,
                                      resolve_synonyms, dblink)
        pre == queries__prepare_reflection_args(cat, table_name, schema,
                                                resolve_synonyms, dblink)
    IN  IF a.raised # "" THEN pre
        ELSE pre \o <<Select_(view,
                              IF linked THEN a.value.dblink ELSE NoLink,
                              [table_name |-> a.value.table_name,
                               owner |-> a.value.owner])>>

\* lines 635-648
queries_get_columns(cat, table_name, schema, kw) ==
    queries_prepared(cat, table_name, schema, kw.oracle_resolve_synonyms,
                     kw.dblink, "ALL_TAB_COLUMNS", TRUE)

\* lines 773-784
queries_get_primary_keys(cat, table_name, schema, kw) ==
    queries_prepared(cat, table_name, schema, kw.oracle_resolve_synonyms,
                     kw.dblink, "ALL_CONSTRAINTS", TRUE)

\* lines 874-884: all_views is written without the link
queries_get_view_definition(cat, view_name, schema, resolve_synonyms, dblink) ==
    queries_prepared(cat, view_name, schema, resolve_synonyms, dblink,
                     "ALL_VIEWS", FALSE)

\* lines 831-866: the lookups of the loop over constraint_data
RECURSIVE queries_foreign_keys_of(_, _, _)
queries_foreign_keys_of(st, rows, env) ==
    IF rows = <<>> \/ st.raised # "" THEN <<>>
    ELSE LET row == Head(rows)
             remote_table == normalize_name(row.remote_table)
             remote_owner == normalize_name(row.remote_owner)
             rec == fkeys_getitem(st.fkeys, row.constraint_name)
             looked_up == /\ is_foreign_key_row(row)
                          /\ ~remote_table_is_none(remote_table)
                          /\ ~NameTruthy(rec.referred_table)
                          /\ env.resolve_synonyms
         IN  (IF looked_up
              THEN queries__resolve_synonym(denormalize_name(remote_owner),
                                            None,
                                            denormalize_name(remote_table))
              ELSE <<>>)
             \o queries_foreign_keys_of(foreign_key_row(st, row, env),
                                        Tail(rows), env)

\* lines 807-866
queries_get_foreign_keys(cat, table_name, schema, kw) ==
    LET a == _prepare_reflection_args(cat, table_name, schema,
                                      kw.oracle_resolve_synonyms, kw.dblink)
        read == queries_get_primary_keys(cat, table_name, schema, kw)
        cd == _get_constraint_data(cat, a.value.table_name, a.value.owner,
                                   a.value.dblink)
    IN  IF a.raised # "" THEN read
        ELSE IF cd.raised # "" THEN read
        ELSE read \o queries_foreign_keys_of(
                         [fkeys |-> [k \in {} |-> fkey_rec],
                          warnings |-> <<>>, raised |-> ""],
                         cd.value,
                         [cat |-> cat, requested_schema |-> schema,
                          schema |-> a.value.owner, dblink |-> a.value.dblink,
                          resolve_synonyms |-> kw.oracle_resolve_synonyms])

\* lines 693-717
queries_get_indexes(cat, table_name, schema, resolve_synonyms, dblink) ==
    LET a == _prepare_reflection_args(cat, table_name, schema,
                                      resolve_synonyms, dblink)
        pre == queries__prepare_reflection_args(cat, table_name, schema,
                                                resolve_synonyms, dblink)
        q == execute(cat, "ALL_IND_COLUMNS", a.value.dblink)
    IN  IF a.raised # "" THEN pre
        ELSE pre
             \o <<Select_("ALL_IND_COLUMNS", a.value.dblink,
                          [table_name |-> denormalize_name(a.value.table_name),
                           schema |-> denormalize_name(a.value.owner)])>>
             \o (IF q.raised # "" THEN <<>>
                 ELSE queries_get_primary_keys(cat, a.value.table_name,
                          a.value.owner,
                          [oracle_resolve_synonyms |-> FALSE,
                           dblink |-> a.value.dblink]))

\* connection.execute(statement): the dictionary after it
executed_as_delete(cat, q) ==
    IF q.view \in DOMAIN cat THEN [cat EXCEPT ![q.view] = <<>>] ELSE cat

executed(cat, q) ==
    IF q.verb = "SELECT" THEN cat
    ELSE IF q.view \in DOMAIN cat THEN [cat EXCEPT ![q.view] = <<>>]
    ELSE cat

\* the dictionary after the statements of a call
RECURSIVE executed_all(_, _)
executed_all(cat, queries) ==
    IF queries = <<>> THEN cat
    ELSE executed_all(executed(cat, Head(queries)), Tail(queries))

\* a call that retries the statement that failed
interrupted_retrying(cat, r, queries) ==
    IF ~IsNone(cat.fails) /\ cat.fails[1] <= Len(queries)
    THEN [ret |-> Raised("DatabaseError", <<>>),
          queries |-> Append(SubSeq(queries, 1, cat.fails[1]),
                             queries[cat.fails[1]])]
    ELSE [ret |-> r, queries |-> queries]

\* a call that goes on after the statement that failed
interrupted_swallowing(cat, r, queries) == [ret |-> r, queries |-> queries]

\* the call on a connection that fails the statement cat.fails of every
\* call: r and queries are what the call gives and executes when no
\* statement fails.  No reflection method has a try statement, so that the
\* exception of connection.execute leaves it where it is raised; the
\* warnings given before are not kept.
interrupted(cat, r, queries) ==
    IF ~IsNone(cat.fails) /\ cat.fails[1] <= Len(queries)
    THEN [ret |-> Raised("DatabaseError", <<>>),
          queries |-> SubSeq(queries, 1, cat.fails[1])]
    ELSE [ret |-> r, queries |-> queries]

(***************************************************************************)
(* The dictionaries and calls of the reflection methods.  Names are never  *)
(* empty: Oracle has no empty identifier.                                  *)
(***************************************************************************)
N_SA == Str(<<"S", "A">>)
N_SS == Str(<<"S", "S">>)
N_AA == Str(<<"A", "A">>)
N_S1 == Str(<<"S", "1">>)
N_A1 == Str(<<"A", "1">>)
\* a name created in quotes, kept in lower case by the dictionary
N_sa == Str(<<"s", "a">>)

EmptyLinked ==
    [raised |-> "", ALL_TAB_COLUMNS |-> <<>>, ALL_IND_COLUMNS |-> <<>>,
     ALL_CONSTRAINTS |-> <<>>]

EmptyDictionary ==
    [USER |-> N_AA, ALL_SYNONYMS |-> <<>>, ALL_TAB_COLUMNS |-> <<>>,
     ALL_IND_COLUMNS |-> <<>>, ALL_CONSTRAINTS |-> <<>>, LINKED |-> EmptyLinked,
     ALL_TABLES |-> <<>>, ALL_SEQUENCES |-> <<>>, ALL_USERS |-> <<>>,
     ALL_VIEWS |-> <<>>, fails |-> NoInt]

NoKw == [oracle_resolve_synonyms |-> FALSE, dblink |-> Str(<<>>)]

\* DATA_TYPE, DATA_LENGTH, DATA_PRECISION, DATA_SCALE of a column
TypeCell(tokens, length, precision, scale) ==
    [DATA_TYPE |-> tokens, DATA_LENGTH |-> length,
     DATA_PRECISION |-> precision, DATA_SCALE |-> scale]

TypeCells ==
    {TypeCell(<<"NUMBER">>, Some(22), p, sc) :
        p \in {NoInt, Some(0), Some(9)}, sc \in {NoInt, Some(0), Some(2)}}
    \cup {TypeCell(<<t>>, Some(5), NoInt, NoInt) : t \in {"CHAR", "VARCHAR2"}}
    \cup {TypeCell(t, Some(7), NoInt, NoInt) :
            t \in {<<"DATE">>, <<"TIMESTAMP", "(6)">>,
                   <<"TIMESTAMP", "(6)", " WITH TIME ZONE">>,
                   <<"INTEGER">>, <<"XMLTYPE">>}}
    \cup {TypeCell(<<"NUMERIC">>, Some(22), Some(9), Some(2))}

ColumnNames == <<Str(<<"A">>), Str(<<"S", "a">>), Str(<<"S">>), Str(<<"A", "1">>)>>

TabColumn(table, owner, colname, cell, nullable, default) ==
    [TABLE_NAME |-> table, OWNER |-> owner, COLUMN_NAME |-> colname,
     DATA_TYPE |-> cell.DATA_TYPE, DATA_LENGTH |-> cell.DATA_LENGTH,
     DATA_PRECISION |-> cell.DATA_PRECISION, DATA_SCALE |-> cell.DATA_SCALE,
     NULLABLE |-> nullable, DATA_DEFAULT |-> default]

\* the columns of the table SA of SS, of the types of cells
TypedColumns(cells) ==
    [i \in DOMAIN cells |->
        TabColumn(N_SA, N_SS, ColumnNames[i], cells[i],
                  IF i = 1 THEN "N" ELSE "Y", None)]

Synonym(owner, synonym, table_owner, table, link) ==
    [OWNER |-> owner, SYNONYM_NAME |-> synonym, TABLE_OWNER |-> table_owner,
     TABLE_NAME |-> table, DB_LINK |-> link]

Synonyms ==
    {Synonym(N_AA, N_S1, N_SS, N_SA, None),
     Synonym(N_A1, N_S1, N_AA, N_SA, None),
     Synonym(N_AA, N_S1, N_SS, N_SA, N_A1),
     Synonym(N_AA, N_A1, N_SS, N_sa, None)}

SynonymLists ==
    {<<>>} \cup {<<x>> : x \in Synonyms}
        \cup {<<x, y>> : x \in Synonyms, y \in Synonyms}

NumberCell == TypeCell(<<"NUMBER">>, Some(22), Some(9), Some(2))
CharCell == TypeCell(<<"VARCHAR2">>, Some(5), NoInt, NoInt)
DateCell == TypeCell(<<"DATE">>, Some(7), NoInt, NoInt)
XmlCell == TypeCell(<<"XMLTYPE">>, Some(7), NoInt, NoInt)

\* the tables SA of SS, SA of AA and sa of SS
TabColumnLists ==
    {<<TabColumn(N_SA, N_SS, Str(<<"A">>), NumberCell, "N", None),
       TabColumn(N_SA, N_AA, Str(<<"S">>), DateCell, "Y", None),
       TabColumn(N_SA, N_SS, Str(<<"S", "a">>), CharCell, "Y", Str(<<"a">>)),
       TabColumn(N_sa, N_SS, Str(<<"A">>), DateCell, "Y", None)>>,
     <<TabColumn(N_SA, N_SS, Str(<<"S">>), XmlCell, "Y", None),
       TabColumn(N_SA, N_SS, Str(<<"A">>), CharCell, "N", None)>>,
     <<TabColumn(N_SA, N_AA, Str(<<"A">>), CharCell, "N", None)>>}

\* what a query through a database link gives
Linked ==
    {[EmptyLinked EXCEPT !.raised = "DatabaseError"],
     [EmptyLinked EXCEPT
        !.ALL_TAB_COLUMNS =
            <<TabColumn(N_SA, N_SS, Str(<<"S">>), DateCell, "Y", None)>>]}

GetColumnsInit ==
    \/ \E cells \in SeqsUpTo(TypeCells, MaxColumns) :
          /\ catalog = [EmptyDictionary EXCEPT
                            !.ALL_TAB_COLUMNS = TypedColumns(cells)]
          /\ call = [op |-> "get_columns", table_name |-> Unicode(<<"s", "a">>),
                     schema |-> Unicode(<<"s", "s">>), kw |-> NoKw]
    \/ \E syn \in SynonymLists, cols \in TabColumnLists, l \in Linked,
          t \in {lower(N_S1.chars), lower(N_A1.chars), N_SA.chars, N_sa.chars},
          sch \in {None, Unicode(lower(N_SS.chars))}, r \in BOOLEAN :
          /\ catalog = [EmptyDictionary EXCEPT
                            !.ALL_SYNONYMS = syn, !.ALL_TAB_COLUMNS = cols,
                            !.LINKED = l]
          /\ call = [op |-> "get_columns", table_name |-> Unicode(t),
                     schema |-> sch,
                     kw |-> [NoKw EXCEPT !.oracle_resolve_synonyms = r]]

ResolveSynonymInit ==
    \E syn \in SynonymLists,
       o \in {None, N_SS}, sy \in {None, N_S1, N_A1}, t \in {None, N_SA} :
        /\ catalog = [EmptyDictionary EXCEPT !.ALL_SYNONYMS = syn]
        /\ call = [op |-> "_resolve_synonym", desired_owner |-> o,
                   desired_synonym |-> sy, desired_table |-> t]

Lengths == {Some(n) : n \in 1..MaxSize}

Types ==
    {TypeOf("INTEGER", <<>>)}
        \cup {TypeOf("NUMERIC", <<p, sc>>) :
                p \in {NoInt, Some(0), Some(9)}, sc \in {NoInt, Some(0), Some(2)}}
        \cup {TypeOf("CHAR", <<n>>) : n \in Lengths}
        \cup {TypeOf("FLOAT", <<p>>) : p \in {NoInt, Some(9)}}
        \cup {TypeOf("VARCHAR", <<n>>) : n \in Lengths}

TypeCompilerInit ==
    \E t \in Types :
        /\ catalog = EmptyDictionary
        /\ call = [op |-> "type_compiler", type |-> t]

\* a row of _get_constraint_data's join; remote is the table, column and
\* owner of the referenced column, all null when the join finds none
ConstraintRow(table, owner, cons_name, type, local, remote) ==
    [table_name |-> table, owner |-> owner, constraint_name |-> cons_name,
     constraint_type |-> type, local_column |-> local,
     remote_table |-> remote[1], remote_column |-> remote[2],
     remote_owner |-> remote[3]]

NoRemote == <<None, None, None>>

Remotes ==
    {NoRemote, <<N_AA, Str(<<"A">>), N_SS>>, <<N_AA, Str(<<"S">>), N_AA>>}

\* rows of the foreign keys S1 and A1 and of the primary key AA of the
\* table SA of owner
ForeignKeyRows(owner) ==
    {ConstraintRow(N_SA, owner, n, "R", l, r) :
        n \in {N_S1, N_A1}, l \in {Str(<<"A">>), Str(<<"S", "a">>)},
        r \in Remotes}
    \cup {ConstraintRow(N_SA, owner, N_AA, "P", Str(<<"A">>), NoRemote)}

\* get_foreign_keys on the table SA, of the schema given or of the user's
\* own; the rows come in every order, the order of the query among them
GetForeignKeysInit ==
    \E sch \in {None, Unicode(lower(N_SS.chars))}, r \in BOOLEAN :
      \E rows \in SeqsUpTo(ForeignKeyRows(IF sch = None THEN N_AA ELSE N_SS),
                           MaxRows) :
        /\ catalog = [EmptyDictionary EXCEPT
                        !.ALL_CONSTRAINTS = rows,
                        !.ALL_SYNONYMS =
                            IF r THEN <<Synonym(N_AA, N_S1, N_SS, N_AA, None)>>
                            ELSE <<>>]
        /\ call = [op |-> "get_foreign_keys",
                   table_name |-> Unicode(lower(N_SA.chars)), schema |-> sch,
                   kw |-> [NoKw EXCEPT !.oracle_resolve_synonyms = r]]

\* a row of the join of ALL_IND_COLUMNS and ALL_INDEXES
IndColumn(index, column, uniqueness) ==
    [INDEX_NAME |-> index, COLUMN_NAME |-> column, UNIQUENESS |-> uniqueness,
     TABLE_NAME |-> N_SA, TABLE_OWNER |-> N_SS]

\* the columns A, SA and the column created as "Sa"
IndexedColumns == {Str(<<"A">>), N_SA, Str(<<"S", "a">>)}

IndexRows ==
    {IndColumn(N_A1, col, "UNIQUE") : col \in IndexedColumns}
        \cup {IndColumn(N_S1, col, "NONUNIQUE") : col \in IndexedColumns}

\* ORDER BY a.INDEX_NAME, a.COLUMN_POSITION: the rows of an index follow
\* each other, and a column is in an index once
IndexRowLists ==
    {rows \in SeqsUpTo(IndexRows, MaxRows) :
        /\ \A i, j \in DOMAIN rows :
              i < j => /\ rows[i] # rows[j]
                       /\ rows[i].INDEX_NAME = N_A1 \/ rows[j].INDEX_NAME = N_S1}

\* the constraints of the table SA of SS: a check constraint, a foreign key
\* and the primary key on the columns given
PrimaryKeyRows(columns) ==
    <<ConstraintRow(N_SA, N_SS, N_A1, "C", Str(<<"A">>), NoRemote),
      ConstraintRow(N_SA, N_SS, N_S1, "R", Str(<<"A">>),
                    <<N_AA, Str(<<"A">>), N_SS>>)>>
        \o [i \in DOMAIN columns |->
                ConstraintRow(N_SA, N_SS, N_AA, "P", columns[i], NoRemote)]

PrimaryKeys ==
    {<<>>, <<Str(<<"A">>)>>, <<N_SA>>, <<Str(<<"S", "a">>)>>,
     <<Str(<<"A">>), Str(<<"S", "a">>)>>}

GetIndexesInit ==
    \E rows \in IndexRowLists, pk \in PrimaryKeys :
        /\ catalog = [EmptyDictionary EXCEPT
                        !.ALL_IND_COLUMNS = rows,
                        !.ALL_CONSTRAINTS = PrimaryKeyRows(pk)]
        /\ call = [op |-> "get_indexes",
                   table_name |-> Unicode(lower(N_SA.chars)),
                   schema |-> Unicode(lower(N_SS.chars)),
                   resolve_synonyms |-> FALSE, dblink |-> Str(<<>>)]

\* the ondelete and onupdate of a foreign key constraint
Cascades == {<<>>, <<"CASCADE">>, <<"SET NULL">>, <<"">>}

DefineConstraintCascadesInit ==
    \E d \in Cascades, u \in Cascades :
        /\ catalog = EmptyDictionary
        /\ call = [op |-> "define_constraint_cascades",
                   constraint |-> [ondelete |-> d, onupdate |-> u]]

\* the call has ended: r and queries are what it gives and executes on a
\* connection that fails no statement; history keeps the dictionary it was
\* made on, what it gave and what it executed
Finish(r, queries) ==
    /\ \E out \in {interrupted(catalog, r, queries)} :
          /\ ret' = out.ret
          /\ warnings' = out.ret.warnings
          /\ rpc' = IF out.ret.raised = "" THEN "returned" ELSE "raised"
          /\ history' = Append(history, [dictionary |-> catalog,
                                         ret |-> out.ret,
                                         queries |-> out.queries])
          /\ catalog' = executed_all(catalog, out.queries)
    /\ UNCHANGED call
    /\ UNCHANGED nameVars
    /\ UNCHANGED compileVars
    /\ UNCHANGED warnVars

GetColumns ==
    /\ rpc = "called"
    /\ call.op = "get_columns"
    /\ \E r \in {get_columns(catalog, call.table_name, call.schema, call.kw)} :
          Finish(r, queries_get_columns(catalog, call.table_name,
                                        call.schema, call.kw))

CompileType ==
    /\ rpc = "called"
    /\ call.op = "type_compiler"
    /\ \E r \in {Returned(type_compiler_process(call.type), <<>>)} :
          Finish(r, <<>>)

ResolveSynonym ==
    /\ rpc = "called"
    /\ call.op = "_resolve_synonym"
    /\ \E r \in {_resolve_synonym(catalog, call.desired_owner,
                                  call.desired_synonym, call.desired_table)} :
          Finish(r, queries__resolve_synonym(call.desired_owner,
                                             call.desired_synonym,
                                             call.desired_table))

GetForeignKeys ==
    /\ rpc = "called"
    /\ call.op = "get_foreign_keys"
    /\ \E r \in {get_foreign_keys(catalog, call.table_name, call.schema,
                                  call.kw)} :
          Finish(r, queries_get_foreign_keys(catalog, call.table_name,
                                             call.schema, call.kw))

GetIndexes ==
    /\ rpc = "called"
    /\ call.op = "get_indexes"
    /\ \E r \in {get_indexes(catalog, call.table_name, call.schema,
                             call.resolve_synonyms, call.dblink)} :
          Finish(r, queries_get_indexes(catalog, call.table_name, call.schema,
                                        call.resolve_synonyms, call.dblink))

\* get_primary_keys called by itself
GetPrimaryKeys ==
    /\ rpc = "called"
    /\ call.op = "get_primary_keys"
    /\ \E r \in {get_primary_keys(catalog, call.table_name, call.schema,
                                  call.kw)} :
          Finish(r, queries_get_primary_keys(catalog, call.table_name,
                                             call.schema, call.kw))

\* the keyword arguments other than info_cache are not read (lines 871-877)
GetViewDefinition ==
    /\ rpc = "called"
    /\ call.op = "get_view_definition"
    /\ \E r \in {get_view_definition(catalog, call.table_name, call.schema,
                                     call.resolve_synonyms, call.dblink)} :
          Finish(r, queries_get_view_definition(catalog, call.table_name,
                        call.schema, call.resolve_synonyms, call.dblink))

PrepareReflectionArgs ==
    /\ rpc = "called"
    /\ call.op = "_prepare_reflection_args"
    /\ \E r \in {_prepare_reflection_args(catalog, call.table_name,
                        call.schema, call.resolve_synonyms, call.dblink)} :
          Finish(r, queries__prepare_reflection_args(catalog, call.table_name,
                        call.schema, call.resolve_synonyms, call.dblink))

HasTable ==
    /\ rpc = "called"
    /\ call.op = "has_table"
    /\ \E r \in {has_table(catalog, call.table_name, call.schema)} :
          Finish(r, queries_has_table(catalog, call.table_name, call.schema))

HasSequence ==
    /\ rpc = "called"
    /\ call.op = "has_sequence"
    /\ \E r \in {has_sequence(catalog, call.table_name, call.schema)} :
          Finish(r, queries_has_sequence(catalog, call.table_name,
                                         call.schema))

GetSchemaNames ==
    /\ rpc = "called"
    /\ call.op = "get_schema_names"
    /\ \E r \in {get_schema_names(catalog)} :
          Finish(r, queries_get_schema_names)

GetTableNames ==
    /\ rpc = "called"
    /\ call.op = "get_table_names"
    /\ \E r \in {get_table_names(catalog, call.schema)} :
          Finish(r, queries_get_table_names(catalog, call.schema))

GetViewNames ==
    /\ rpc = "called"
    /\ call.op = "get_view_names"
    /\ \E r \in {get_view_names(catalog, call.schema)} :
          Finish(r, queries_get_view_names(catalog, call.schema))

\* the caller makes the call it made once more
CallAgain ==
    /\ rpc \in {"returned", "raised"}
    /\ Len(history) < MaxRepeats
    /\ rpc' = "called"
    /\ UNCHANGED <<catalog, call, ret, warnings, history>>
    /\ UNCHANGED nameVars
    /\ UNCHANGED compileVars
    /\ UNCHANGED warnVars

DefineConstraintCascades ==
    /\ rpc = "called"
    /\ call.op = "define_constraint_cascades"
    /\ \E r \in {define_constraint_cascades(call.constraint)} :
          Finish(r, <<>>)

ReflectIdle ==
    /\ catalog = <<>> /\ call = [op |-> "none"] /\ ret = <<>>
    /\ warnings = <<>> /\ rpc = "idle" /\ history = <<>>

\* no _expect_warnings block is active
WarnIdle ==
    /\ _FILTERS = <<>> /\ _SEEN = <<>> /\ _EXC_CLS = <<>>
    /\ blocks = <<>> /\ exc = "" /\ given = {} /\ unseen = {}

NameIdle == name = None /\ ident = None /\ calls = <<>>

CompileIdle ==
    /\ heap = <<>> /\ stmt = 0 /\ saved = <<>> /\ select = 0
    /\ dialect = [use_ansi |-> TRUE, optimize_limits |-> FALSE]
    /\ pc = "idle" /\ phases = <<>> /\ emitted = 0 /\ text = <<>>

(***************************************************************************)
(* testing/assertions.py: the blocks of _expect_warnings.  A filter is the *)
(* message it was compiled from and matches the warnings of that message.  *)
(* The list `filters` and the set `seen` of the outermost block are the    *)
(* objects _FILTERS and _SEEN name until that block resets them, so that   *)
(* the globals stand for the locals too.                                   *)
(***************************************************************************)
Messages == {"a", "b"}

\* the messages a block is entered with
MessageLists == {<<>>, <<"a">>, <<"b">>, <<"a", "b">>}

\* sa_exc.SAWarning of expect_warnings, sa_exc.SADeprecationWarning of
\* expect_deprecated
ExpectedClasses == {"SAWarning", "SADeprecationWarning"}

\* the category of a warning: the two, another one, or none given
Categories == ExpectedClasses \cup {"UserWarning", "None"}

\* lines 183-212: our_warn(msg, exception); gives the set `seen` after it
\* and whether the warning was handed on to real_warn
our_warn(seen, filters, exc_classes, msg, exception) ==
    IF exception = "None" \/ exception \notin Range(exc_classes)
    THEN [seen |-> seen, handed_on |-> TRUE]
    ELSE IF filters = <<>> THEN [seen |-> seen, handed_on |-> FALSE]
    ELSE IF \E i \in DOMAIN filters : filters[i] = msg
    THEN [seen |-> seen \ {msg}, handed_on |-> FALSE]
    ELSE [seen |-> seen, handed_on |-> TRUE]

\* lines 217-223, the finally clause without the reset of the globals
Unwind_keeping_globals(raising) ==
    /\ blocks # <<>>
    /\ blocks' = SubSeq(blocks, 1, Len(blocks) - 1)
    /\ UNCHANGED <<_SEEN, _FILTERS, _EXC_CLS>>
    /\ IF ~blocks[Len(blocks)].nested /\ blocks[Len(blocks)].assert_
             /\ _SEEN[1] # {}
       THEN exc' = "AssertionError" /\ unseen' = _SEEN[1]
       ELSE exc' = raising /\ UNCHANGED unseen
    /\ UNCHANGED given

\* the generator of the innermost block resumed at its yield, by the end of
\* the body (raising = "") or by the exception the body raised: a nested
\* block ends there (line 169); the outermost one runs lines 217-223
Unwind(raising) ==
    /\ blocks # <<>>
    /\ blocks' = SubSeq(blocks, 1, Len(blocks) - 1)
    /\ IF blocks[Len(blocks)].nested
       THEN UNCHANGED <<_SEEN, _FILTERS, _EXC_CLS, unseen>> /\ exc' = raising
       ELSE /\ _SEEN' = <<>> /\ _FILTERS' = <<>> /\ _EXC_CLS' = <<>>
            /\ IF blocks[Len(blocks)].assert_ /\ _SEEN[1] # {}
               THEN exc' = "AssertionError" /\ unseen' = _SEEN[1]
               ELSE exc' = raising /\ UNCHANGED unseen
    /\ UNCHANGED given

\* lines 154-173 and 214-216: _expect_warnings entered, up to its yield
ExpectWarningsEnter ==
    /\ exc = ""
    /\ Len(blocks) < MaxDepth
    /\ \E exc_cls \in ExpectedClasses, messages \in MessageLists,
          assert_ \in BOOLEAN :
          LET filters == messages
              entered == [nested |-> ~IsNone(_FILTERS), assert_ |-> assert_]
              asked == {[message |-> msg, assert_ |-> assert_] :
                            msg \in Range(messages)}
          IN  IF ~IsNone(_FILTERS)
              THEN IF IsNone(_SEEN) \/ IsNone(_EXC_CLS)
                   THEN /\ exc' = "AssertionError"
                        /\ UNCHANGED <<_FILTERS, _SEEN, _EXC_CLS, blocks,
                                       given, unseen>>
                   ELSE /\ Len(_FILTERS[1]) + Len(filters) <= MaxFilters
                        /\ Len(_EXC_CLS[1]) < MaxEntered
                        /\ _FILTERS' = <<_FILTERS[1] \o filters>>
                        /\ _SEEN' = <<_SEEN[1] \cup Range(filters)>>
                        /\ _EXC_CLS' = <<Append(_EXC_CLS[1], exc_cls)>>
                        /\ blocks' = Append(blocks, entered)
                        /\ given' = given \cup asked
                        /\ UNCHANGED <<exc, unseen>>
              ELSE /\ _SEEN' = <<Range(filters)>>
                   /\ _FILTERS' = <<filters>>
                   /\ _EXC_CLS' = <<<<exc_cls>>>>
                   /\ blocks' = Append(blocks, entered)
                   /\ given' = asked
                   /\ unseen' = {}
                   /\ UNCHANGED exc
    /\ UNCHANGED nameVars
    /\ UNCHANGED compileVars
    /\ UNCHANGED reflectVars

\* the body of the innermost block calls warnings.warn, patched to our_warn
Warn ==
    /\ exc = ""
    /\ blocks # <<>>
    /\ \E msg \in Messages \cup {"x"}, exception \in Categories :
          \E r \in {our_warn(_SEEN[1], _FILTERS[1], _EXC_CLS[1], msg,
                             exception)} :
             _SEEN' = <<r.seen>>
    /\ UNCHANGED <<_FILTERS, _EXC_CLS, blocks, exc, given, unseen>>
    /\ UNCHANGED nameVars
    /\ UNCHANGED compileVars
    /\ UNCHANGED reflectVars

\* the body of the innermost block ends
ExpectWarningsExit ==
    /\ exc = ""
    /\ Unwind("")
    /\ UNCHANGED nameVars
    /\ UNCHANGED compileVars
    /\ UNCHANGED reflectVars

\* the body of the innermost block raises an exception of its own
BodyRaises ==
    /\ exc = ""
    /\ blocks # <<>>
    /\ exc' = "Error"
    /\ UNCHANGED <<_FILTERS, _SEEN, _EXC_CLS, blocks, given, unseen>>
    /\ UNCHANGED nameVars
    /\ UNCHANGED compileVars
    /\ UNCHANGED reflectVars

\* the exception leaves the innermost block
ExpectWarningsExitByException ==
    /\ exc # ""
    /\ Unwind(exc)
    /\ UNCHANGED nameVars
    /\ UNCHANGED compileVars
    /\ UNCHANGED reflectVars

\* the exception is caught, by the body it is in or by the test runner
Caught ==
    /\ exc # ""
    /\ exc' = ""
    /\ unseen' = {}
    /\ UNCHANGED <<_FILTERS, _SEEN, _EXC_CLS, blocks, given>>
    /\ UNCHANGED nameVars
    /\ UNCHANGED compileVars
    /\ UNCHANGED reflectVars

\* The compiler: one visit_select call on each statement and dialect.
Init == CompileInitOver(Shapes) /\ NameIdle /\ ReflectIdle /\ WarnIdle
Next == Start \/ JoinRewrite \/ PaginationRewrite \/ Emit
Spec == Init /\ [][Next]_vars

\* The call running to its end, on the statements whose joins are on
\* A.id = B.a_id: visit_select is straight-line code of one thread, every
\* step of it is taken once it is enabled.
CallShapes ==
    {sh \in Shapes : sh.form # "table" =>
        sh.on \in {<<Binary("eq", A_id, B_a_id)>>, <<Binary("eq", C_id, A_id)>>}}
CallInit ==
    CompileInitOver(CallShapes) /\ NameIdle /\ ReflectIdle /\ WarnIdle
CallSpec == CallInit /\ [][Next]_vars /\ WF_vars(Next)

\* The dialect's name conversions applied to each identifier.
NamesInit == NameInit /\ CompileIdle /\ ReflectIdle /\ WarnIdle
NamesNext == NormalizeName \/ DenormalizeName
NamesSpec == NamesInit /\ [][NamesNext]_vars

\* The reflection methods: one call of one method on each dictionary.
ReflectInit ==
    /\ GetColumnsInit \/ ResolveSynonymInit \/ TypeCompilerInit
    /\ ret = <<>> /\ warnings = <<>> /\ rpc = "called" /\ history = <<>>
    /\ NameIdle /\ CompileIdle /\ WarnIdle
ReflectNext == GetColumns \/ ResolveSynonym \/ CompileType
ReflectSpec == ReflectInit /\ [][ReflectNext]_vars

\* The constraints: one reflection of the keys or the indexes of a table,
\* or one rendering of the cascades of a foreign key.
ConstraintInit ==
    /\ GetForeignKeysInit \/ GetIndexesInit \/ DefineConstraintCascadesInit
    /\ ret = <<>> /\ warnings = <<>> /\ rpc = "called" /\ history = <<>>
    /\ NameIdle /\ CompileIdle /\ WarnIdle
ConstraintNext == GetForeignKeys \/ GetIndexes \/ DefineConstraintCascades
ConstraintSpec == ConstraintInit /\ [][ConstraintNext]_vars

\* The warning blocks of a test: entered, left, and warned in, in any order.
WarningsInit == WarnIdle /\ NameIdle /\ CompileIdle /\ ReflectIdle
WarningsNext ==
    \/ ExpectWarningsEnter \/ Warn \/ ExpectWarningsExit \/ BodyRaises
    \/ ExpectWarningsExitByException \/ Caught
WarningsSpec == WarningsInit /\ [][WarningsNext]_vars

(***************************************************************************)
(* A session of reflection: one call of a method on a dictionary, made     *)
(* again with the same arguments.  SS is a schema Oracle maintains, AA the *)
(* user's own.                                                             *)
(***************************************************************************)
TableRow(table, owner, tablespace) ==
    [TABLE_NAME |-> table, OWNER |-> owner, TABLESPACE_NAME |-> tablespace]

ViewRow(view, owner, view_text) ==
    [VIEW_NAME |-> view, OWNER |-> owner, TEXT |-> view_text]

TableLists ==
    {<<TableRow(N_SA, N_SS, <<"USERS">>), TableRow(N_S1, N_SS, <<"SYSTEM">>),
       TableRow(N_A1, N_AA, <<>>), TableRow(N_sa, N_AA, <<"SYSAUX">>)>>,
     <<TableRow(N_S1, N_AA, <<"SYSTEM">>), TableRow(N_SA, N_AA, <<"USERS">>)>>}

SessionDictionary ==
    [EmptyDictionary EXCEPT
        !.ALL_TAB_COLUMNS =
            <<TabColumn(N_SA, N_SS, Str(<<"A">>), NumberCell, "N", None),
              TabColumn(N_SA, N_AA, Str(<<"S">>), DateCell, "Y", None)>>,
        !.ALL_CONSTRAINTS =
            PrimaryKeyRows(<<Str(<<"A">>)>>)
                \o <<ConstraintRow(N_SA, N_AA, N_S1, "R", Str(<<"S">>),
                                   <<N_SA, Str(<<"A">>), N_SS>>)>>,
        !.ALL_IND_COLUMNS = <<IndColumn(N_S1, N_SA, "NONUNIQUE")>>,
        !.ALL_SEQUENCES =
            <<[SEQUENCE_NAME |-> N_S1, SEQUENCE_OWNER |-> N_SS]>>,
        !.ALL_USERS = <<[USERNAME |-> N_AA, ORACLE_MAINTAINED |-> "N"],
                        [USERNAME |-> N_SS, ORACLE_MAINTAINED |-> "Y"]>>,
        !.ALL_VIEWS = <<ViewRow(N_S1, N_SS, <<"select 1 from dual">>),
                        ViewRow(N_SA, N_SS, <<>>),
                        ViewRow(N_A1, N_AA, <<"">>)>>]

\* the statement of a call that the connection fails, if any
Failures == {NoInt} \cup {Some(k) : k \in 1..MaxQueries}

SessionDictionaries ==
    {[SessionDictionary EXCEPT
        !.ALL_SYNONYMS = syn, !.ALL_TABLES = tables, !.LINKED = l,
        !.fails = f] :
        syn \in {<<>>} \cup {<<x>> : x \in Synonyms}, tables \in TableLists,
        l \in Linked, f \in Failures}

\* the keyword arguments of a call
Kws ==
    {[oracle_resolve_synonyms |-> r, dblink |-> l] :
        r \in BOOLEAN, l \in {NoLink, N_A1}}

CalledNames == {Unicode(lower(N_S1.chars)), Unicode(lower(N_SA.chars))}

Schemas == {None, Unicode(lower(N_SS.chars))}

SessionCalls ==
    {[op |-> o, table_name |-> t, schema |-> sch, kw |-> kw] :
        o \in {"get_columns", "get_primary_keys", "get_foreign_keys"},
        t \in CalledNames, sch \in Schemas, kw \in Kws}
    \cup {[op |-> o, table_name |-> t, schema |-> sch,
           resolve_synonyms |-> r, dblink |-> l,
           kw |-> [NoKw EXCEPT !.oracle_resolve_synonyms = k]] :
            o \in {"get_indexes", "get_view_definition"},
            t \in CalledNames, sch \in Schemas, r \in BOOLEAN,
            l \in {NoLink, N_A1}, k \in BOOLEAN}
    \cup {[op |-> "_prepare_reflection_args", table_name |-> t,
           schema |-> sch, resolve_synonyms |-> r, dblink |-> l] :
            t \in CalledNames, sch \in Schemas, r \in BOOLEAN,
            l \in {NoLink, N_A1}}
    \cup {[op |-> o, table_name |-> t, schema |-> sch] :
            o \in {"has_table", "has_sequence"},
            t \in CalledNames, sch \in Schemas}
    \cup {[op |-> o, schema |-> sch] :
            o \in {"get_table_names", "get_view_names"}, sch \in Schemas}
    \cup {[op |-> "get_schema_names"]}

SessionInit ==
    /\ catalog \in SessionDictionaries
    /\ call \in SessionCalls
    /\ ret = <<>> /\ warnings = <<>> /\ rpc = "called" /\ history = <<>>
    /\ NameIdle /\ CompileIdle /\ WarnIdle

SessionNext ==
    \/ GetColumns \/ GetPrimaryKeys \/ GetForeignKeys \/ GetIndexes
    \/ GetViewDefinition \/ PrepareReflectionArgs \/ HasTable \/ HasSequence
    \/ GetSchemaNames \/ GetTableNames \/ GetViewNames \/ CallAgain

SessionSpec == SessionInit /\ [][SessionNext]_vars

(***************************************************************************)
(* Properties of the compiler.                                             *)
(***************************************************************************)
Done == pc = "done"

\* the caller's select as it was handed to visit_select
Orig == saved[stmt]

IsWrapperSelect(sel) ==
    Len(sel.froms) = 1 /\ sel.froms[1].kind = "select"

\* the number of wrapper levels around the select that is not a wrapper
RECURSIVE Levels(_, _)
Levels(h, s) ==
    IF IsWrapperSelect(h[s]) THEN 1 + Levels(h, h[s].froms[1].id) ELSE 0

\* the select the wrappers are around
RECURSIVE Core(_, _)
Core(h, s) ==
    IF IsWrapperSelect(h[s]) THEN Core(h, h[s].froms[1].id) ELSE s

Inner(h, s) == h[s].froms[1].id

Keys(cols) == [i \in DOMAIN cols |-> key(cols[i])]

\* the conditions of a select's WHERE clause
Filters(h, s) == {h[h[s].whereclause[i]] : i \in DOMAIN h[s].whereclause}

Count(seq, x) == Cardinality({i \in DOMAIN seq : seq[i] = x})

RowNumAtMost(n) == Binary("le", literal_column("ROWNUM"), BindParam(n))
OraRnAbove(n) == Binary("gt", literal_column("ora_rn"), BindParam(n))

\* C1: a select with a limit L and an offset O is emitted in exactly two
\* wrapper levels: the inner one selects the original columns and ROWNUM
\* labelled ora_rn and filters ROWNUM <= L + O, the outer one filters
\* ora_rn > O and selects the original columns without ora_rn.
C1_LimitOffsetWrapsTwice ==
    (Done /\ ~IsNone(Orig._limit) /\ ~IsNone(Orig._offset)) =>
        LET outer == emitted
            inner == Inner(heap, outer)
            core == Inner(heap, inner)
            L == Orig._limit[1]
            O == Orig._offset[1]
        IN  /\ Levels(heap, emitted) = 2
            /\ Count(text, "SELECT") = 3
            /\ heap[core].columns = Orig.columns
            /\ heap[core].froms = Orig.froms
            /\ heap[inner].columns =
                   c(Orig) \o <<Label("ora_rn", literal_column("ROWNUM"))>>
            /\ Filters(heap, inner) = {RowNumAtMost(L + O)}
            /\ Filters(heap, outer) = {OraRnAbove(O)}
            /\ heap[outer].columns = c(Orig)
            /\ "ora_rn" \notin Range(Keys(heap[outer].columns))

C1_Witness ==
    /\ Done
    /\ Orig._limit = Some(2)
    /\ Orig._offset = Some(1)
    /\ Len(Orig.columns) = 3
    /\ Levels(heap, emitted) = 2
    /\ Filters(heap, Inner(heap, emitted)) = {RowNumAtMost(3)}

\* C2: a select with a limit L and no offset is emitted in exactly one
\* wrapper level whose only filter is ROWNUM <= L, and ora_rn is in no
\* column list.
C2_LimitOnlyWrapsOnce ==
    (Done /\ ~IsNone(Orig._limit) /\ IsNone(Orig._offset)) =>
        LET core == Inner(heap, emitted)
        IN  /\ Levels(heap, emitted) = 1
            /\ Count(text, "SELECT") = 2
            /\ heap[core].columns = Orig.columns
            /\ heap[core].froms = Orig.froms
            /\ heap[emitted].columns = c(Orig)
            /\ Filters(heap, emitted) = {RowNumAtMost(Orig._limit[1])}
            /\ "ora_rn" \notin Range(Keys(heap[emitted].columns))
            /\ "ora_rn" \notin Range(Keys(heap[core].columns))
            /\ "ora_rn" \notin Range(text)

C2_Witness ==
    /\ Done
    /\ Orig._limit = Some(2)
    /\ IsNone(Orig._offset)
    /\ Len(Orig.columns) = 3
    /\ Levels(heap, emitted) = 1
    /\ Filters(heap, emitted) = {RowNumAtMost(2)}

\* C3: the compile call leaves every object of the caller's statement as it
\* was: the select (its where clause, columns, limit, offset and flags) and
\* the binary expressions of its WHERE and ON clauses.
C3_CallerTreeUnchanged ==
    /\ pc # "idle" => stmt \in DOMAIN saved
    /\ \A o \in DOMAIN saved : heap[o] = saved[o]

\* both rewrites have acted, on an outer join whose ON clause has an operand
\* to tag
C3_Witness ==
    /\ Done
    /\ phases = <<"Start", "JoinRewrite", "PaginationRewrite", "Emit">>
    /\ Len(heap) > Len(saved)
    /\ \E o \in DOMAIN heap :
          /\ heap[o].kind = "binary"
          /\ heap[o].right.kind = "outer_join_column"
    /\ heap[Core(heap, emitted)]._oracle_visit
    /\ heap[emitted]._is_wrapper

IsTagged(e) == e.kind = "outer_join_column"
Untagged(e) == IF IsTagged(e) THEN e.column ELSE e
Untag(b) == [b EXCEPT !.left = Untagged(b.left), !.right = Untagged(b.right)]

\* the binaries of the ON clauses of a sequence of joins, as the caller
\* wrote them
RECURSIVE OnBinaries(_)
OnBinaries(joins) ==
    IF joins = <<>> THEN <<>>
    ELSE [i \in DOMAIN Head(joins).onclause |-> saved[Head(joins).onclause[i]]]
            \o OnBinaries(Tail(joins))

RECURSIVE TableNames(_)
TableNames(f) ==
    IF f.kind = "join" THEN TableNames(f.left) \o TableNames(f.right)
    ELSE <<f.name>>

RECURSIVE CommaSeparated(_)
CommaSeparated(names) ==
    IF Len(names) <= 1 THEN names
    ELSE <<names[1], ",">> \o CommaSeparated(Tail(names))

\* the token sequence `part` stands in `seq` and no `more` token follows it
Occurs(part, seq, more) ==
    \E i \in 1..(Len(seq) - Len(part) + 1) :
        /\ SubSeq(seq, i, i + Len(part) - 1) = part
        /\ (i + Len(part) <= Len(seq) => seq[i + Len(part)] # more)

\* the WHERE clause of the select the wrappers are around, markers removed
CoreWhere ==
    LET w == heap[Core(heap, emitted)].whereclause
    IN  [i \in DOMAIN w |-> Untag(heap[w[i]])]

OrigWhere == [i \in DOMAIN Orig.whereclause |-> saved[Orig.whereclause[i]]]

OrigJoins == all_joins(Orig.froms)

\* C4: with use_ansi disabled the tables of the joins are rendered as a
\* comma-separated FROM list, the ON condition of every join of the FROM
\* list, nested joins included, is in the WHERE clause after the conditions
\* the select already had, and no JOIN keyword is emitted.
C4_NonAnsiJoinsFlattened ==
    (Done /\ ~dialect.use_ansi) =>
        LET ons == OnBinaries(OrigJoins)
            n == Len(OrigWhere)
        IN  /\ "JOIN" \notin Range(text)
            /\ "LEFT OUTER JOIN" \notin Range(text)
            /\ "ON" \notin Range(text)
            /\ Occurs(<<"FROM">> \o CommaSeparated(TableNames(Orig.froms[1]))
                          \o (IF CoreWhere = <<>> THEN <<>> ELSE <<"WHERE">>)
                          \o Joined(heap, heap[Core(heap, emitted)].whereclause,
                                    "AND"),
                      text, ",")
            /\ Len(CoreWhere) = n + Len(ons)
            /\ SubSeq(CoreWhere, 1, n) = OrigWhere
            /\ Range(SubSeq(CoreWhere, n + 1, Len(CoreWhere))) = Range(ons)

C4_Witness ==
    /\ Done
    /\ ~dialect.use_ansi
    /\ OrigWhere # <<>>
    /\ Len(OrigJoins) = 2
    /\ Occurs(<<"FROM", "A", ",", "B", ",", "C", "WHERE">>, text, ",")
    /\ Len(CoreWhere) = 3
    /\ CoreWhere[2] = Binary("eq", A_id, B_a_id)

SimpleOuterJoin ==
    /\ Len(OrigJoins) = 1
    /\ OrigJoins[1].isouter
    /\ OrigJoins[1].left = Table("A")
    /\ OrigJoins[1].right = Table("B")

TaggedOperands(b) == {e \in {b.left, b.right} : IsTagged(e)}

\* C5: with use_ansi disabled, A LEFT OUTER JOIN B ON A.id = B.a_id, the
\* equality written either way round, puts the predicate in the WHERE clause
\* with the marker (+) on B's operand, and no operand of A is marked.
C5_OuterJoinMarksRightSide ==
    (Done /\ ~dialect.use_ansi /\ SimpleOuterJoin) =>
        LET filters == Filters(heap, Core(heap, emitted))
            ons == Range(OnBinaries(OrigJoins))
        IN  /\ Binary("eq", A_id, B_a_id) \in ons =>
                /\ Binary("eq", A_id, _OuterJoinColumn(B_a_id)) \in filters
                /\ Occurs(<<"A.id", "=", "B.a_id(+)">>, text, "(+)")
            /\ Binary("eq", B_a_id, A_id) \in ons =>
                /\ Binary("eq", _OuterJoinColumn(B_a_id), A_id) \in filters
                /\ Occurs(<<"B.a_id(+)", "=", "A.id">>, text, "(+)")
            /\ \A b \in filters : \A e \in TaggedOperands(b) :
                   e.column.table # "A"
            /\ "A.id(+)" \notin Range(text)

C5_Witness ==
    /\ Done
    /\ ~dialect.use_ansi
    /\ SimpleOuterJoin
    /\ Binary("eq", B_a_id, A_id) \in Range(OnBinaries(OrigJoins))
    /\ Occurs(<<"B.a_id(+)", "=", "A.id">>, text, "(+)")

\* the columns of the tables of one side of a join
ColumnOf(e, side) == e.kind = "column" /\ e.table \in Range(TableNames(side))

\* the binary b of the emitted WHERE clause comes from the ON clause of the
\* outer join j, and its marked operand is a column of j.right
MarkedFor(b, j) ==
    /\ j.isouter
    /\ Untag(b) \in Range(OnBinaries(<<j>>))
    /\ \A e \in TaggedOperands(b) : table_is(e.column, j.right)

\* ... and its other operand is a column of j.left
BetweenSides(b, j) ==
    \A e \in {b.left, b.right} : ~IsTagged(e) => ColumnOf(e, j.left)

EmittedFilters == Filters(heap, Core(heap, emitted))

\* C6 as claimed: an operand is marked only in an equality between a column
\* of join.left and a column of join.right.
C6_Claimed ==
    (Done /\ ~dialect.use_ansi) =>
        \A b \in EmittedFilters :
            TaggedOperands(b) # {} =>
                /\ b.operator = "eq"
                /\ \E i \in DOMAIN OrigJoins :
                      MarkedFor(b, OrigJoins[i]) /\ BetweenSides(b, OrigJoins[i])

\* C6, amended: an operand is marked only when it is a column of the right
\* side of an outer join and one operand of an equality of that join's ON
\* clause, whatever the other operand is; one operand at most is marked, and
\* a predicate with another operator has no operand marked.
C6_MarkedOnlyRightSideOfEquality ==
    (Done /\ ~dialect.use_ansi) =>
        \A b \in EmittedFilters :
            /\ Cardinality(TaggedOperands(b)) <= 1
            /\ TaggedOperands(b) # {} =>
                /\ b.operator = "eq"
                /\ \E i \in DOMAIN OrigJoins : MarkedFor(b, OrigJoins[i])

\* an equality of B's column with a literal is emitted with B's column marked
C6_Witness ==
    /\ Done
    /\ ~dialect.use_ansi
    /\ SimpleOuterJoin
    /\ Binary("eq", _OuterJoinColumn(B_a_id), literal_column("5"))
           \in EmittedFilters
    /\ Occurs(<<"B.a_id(+)", "=", "5">>, text, "(+)")

InOrder(seq, order) ==
    \E f \in [DOMAIN seq -> DOMAIN order] :
        /\ \A i \in DOMAIN seq : order[f[i]] = seq[i]
        /\ \A i, j \in DOMAIN seq : i < j => f[i] < f[j]

\* what may be recorded of a call at any moment: the phases come in the
\* order Start, JoinRewrite, PaginationRewrite, Emit, none twice, Start
\* first; JoinRewrite only with use_ansi off, PaginationRewrite only with a
\* limit or an offset; the call is over exactly when Emit has happened
PhasesInOrder ==
    /\ InOrder(phases, <<"Start", "JoinRewrite", "PaginationRewrite", "Emit">>)
    /\ phases[1] = "Start"
    /\ "JoinRewrite" \in Range(phases) => ~dialect.use_ansi
    /\ "PaginationRewrite" \in Range(phases) => HasLimitOrOffset(Orig)
    /\ Count(phases, "Emit") <= 1
    /\ Done <=> "Emit" \in Range(phases)
    /\ Done => phases[Len(phases)] = "Emit"

\* C7: every visit_select call on an unvisited select goes Start,
\* JoinRewrite (only with use_ansi off), PaginationRewrite (only with a limit
\* or an offset), Emit, in that order, once each at most, and Emit is
\* reached.
C7_PhaseOrder == [](PhasesInOrder) /\ <>Done

C7_Witness ==
    /\ Done
    /\ phases = <<"Start", "JoinRewrite", "PaginationRewrite", "Emit">>
    /\ ~dialect.use_ansi
    /\ ~IsNone(Orig._offset)

(***************************************************************************)
(* Properties of the name conversions.                                     *)
(***************************************************************************)
IsName(n) == n.type # "NoneType" /\ Len(n.chars) > 0

IsLowerCase(cs) == \A i \in DOMAIN cs : cs[i] \notin UpperLetters
IsUpperCase(cs) == \A i \in DOMAIN cs : cs[i] \notin LowerLetters

\* made of lowercase letters, digits and underscore, not a reserved word,
\* no illegal leading character
PlainLowerCase(cs) ==
    /\ Len(cs) > 0
    /\ \A i \in DOMAIN cs : cs[i] \in LowerLetters \cup Digits \cup {"_"}
    /\ cs \notin reserved_words
    /\ cs[1] \notin illegal_initial_characters

C9_Claimed ==
    (calls = <<"normalize", "denormalize">> /\ IsName(name)
        /\ PlainLowerCase(name.chars))
    => PyEq(ident, name)

\* C9, amended: for such an x, denormalize_name(normalize_name(x)) is x
\* folded to upper case, which is not x; the round trip holds for the
\* upper-case form: denormalize_name(normalize_name(X)) == X for X = upper(x).
C9_DenormalizeNormalizeUpperCase ==
    (calls = <<"normalize", "denormalize">> /\ IsName(name))
    => /\ PlainLowerCase(name.chars) =>
              /\ PyEq(ident, Str(upper(name.chars)))
              /\ ~PyEq(ident, name)
       /\ (IsUpperCase(name.chars) /\ PlainLowerCase(lower(name.chars)))
              => PyEq(ident, name)

C9_Witness ==
    /\ calls = <<"normalize", "denormalize">>
    /\ name = Str(<<"S", "_", "1">>)
    /\ ident = Str(<<"S", "_", "1">>)

\* C10: normalize_name folds a name to lower case exactly when the name is
\* all upper case and its lower-cased form does not require quoting;
\* denormalize_name folds to upper case exactly when the name is all lower
\* case and does not require quoting; otherwise each returns the characters
\* unchanged.
C10_FoldExactlyWhen ==
    /\ (calls = <<"normalize">> /\ IsName(name)) =>
          IF IsUpperCase(name.chars) /\ ~_requires_quotes(lower(name.chars))
          THEN ident.chars = lower(name.chars) /\ ident.chars # name.chars
          ELSE ident.chars = name.chars
    /\ (calls = <<"denormalize">> /\ IsName(name)) =>
          IF IsLowerCase(name.chars) /\ ~_requires_quotes(name.chars)
          THEN ident.chars = upper(name.chars) /\ ident.chars # name.chars
          ELSE ident.chars = name.chars

\* an upper-case name is folded to lower case
C10_Witness ==
    /\ calls = <<"normalize">>
    /\ name = Str(<<"S", "A", "1">>)
    /\ ident.chars = <<"s", "a", "1">>

\* C11: given None each of normalize_name and denormalize_name returns None,
\* given the empty string each returns the empty string, and neither raises.
C11_TotalOnNullAndEmpty ==
    (Len(calls) = 1 /\ name \in {None, Str(<<>>)}) =>
        /\ ident # IndexError
        /\ PyEq(ident, name)

(***************************************************************************)
(* Properties of the reflection methods.                                   *)
(***************************************************************************)
\* get_columns has returned from a call on the table SA of SS, by its name
DirectColumns ==
    /\ rpc = "returned"
    /\ call.op = "get_columns"
    /\ ~call.kw.oracle_resolve_synonyms
    /\ call.table_name.chars = <<"s", "a">>
    /\ call.schema = Unicode(<<"s", "s">>)

IsRowOf(table, owner, row) == row.TABLE_NAME = table /\ row.OWNER = owner

IsRowOfSA(row) == IsRowOf(N_SA, N_SS, row)

\* the dictionary's rows of the table SA of SS, in the dictionary's order
RowsOfSA == SelectSeq(catalog.ALL_TAB_COLUMNS, IsRowOfSA)

\* C12: a NUMBER row with precision null and scale null is reflected as the
\* generic NUMERIC type; else one with precision null and scale 0 as INTEGER;
\* every other one as NUMERIC(precision, scale) with the row's precision and
\* scale, whichever of null, 0 and non-zero they are.
C12_NumberPrecedence ==
    DirectColumns =>
        /\ Len(ret.value) = Len(RowsOfSA)
        /\ \A i \in DOMAIN RowsOfSA :
              RowsOfSA[i].DATA_TYPE = <<"NUMBER">> =>
                  LET p == RowsOfSA[i].DATA_PRECISION
                      sc == RowsOfSA[i].DATA_SCALE
                      t == ret.value[i].type
                  IN  IF p = NoInt /\ sc = NoInt
                      THEN t = TypeClass("NUMERIC")
                      ELSE IF p = NoInt /\ sc = Some(0)
                      THEN t = TypeClass("INTEGER")
                      ELSE /\ t.name = "NUMERIC"
                           /\ t.called
                           /\ t.args = <<p, sc>>

C12_Witness ==
    /\ DirectColumns
    /\ Len(RowsOfSA) = 3
    /\ RowsOfSA[1].DATA_TYPE = <<"NUMBER">>
    /\ RowsOfSA[1].DATA_PRECISION = NoInt
    /\ RowsOfSA[1].DATA_SCALE = Some(0)
    /\ ret.value[1].type = TypeClass("INTEGER")
    /\ RowsOfSA[2].DATA_TYPE = <<"NUMBER">>
    /\ RowsOfSA[2].DATA_PRECISION = Some(9)
    /\ RowsOfSA[2].DATA_SCALE = Some(0)
    /\ ret.value[2].type = TypeOf("NUMERIC", <<Some(9), Some(0)>>)
    /\ RowsOfSA[3].DATA_TYPE = <<"NUMBER">>
    /\ RowsOfSA[3].DATA_PRECISION = NoInt
    /\ RowsOfSA[3].DATA_SCALE = Some(2)
    /\ ret.value[3].type = TypeOf("NUMERIC", <<NoInt, Some(2)>>)

\* the native type of the row, its size left out, is not a known type name
UnknownType(row) ==
    Concat(SelectSeq(row.DATA_TYPE, NotSizeToken)) \notin DOMAIN ischema_names

KnownType(row) == ~UnknownType(row)

IsRecognized(cdict) == cdict.type # NULLTYPE

\* C13: get_columns raises nothing and returns one entry per row of the
\* table, in the rows' order; the entry of a row of an unknown native type
\* has the type NULLTYPE and one warning is given for each such row; the
\* other entries are the ones get_columns returns when the rows of unknown
\* types are not in the dictionary.
C13_UnknownTypeDegrades ==
    /\ (call.op = "get_columns" /\ ~call.kw.oracle_resolve_synonyms)
            => rpc # "raised"
    /\ DirectColumns =>
        /\ Len(ret.value) = Len(RowsOfSA)
        /\ \A i \in DOMAIN RowsOfSA :
              /\ PyEq(ret.value[i].name, normalize_name(RowsOfSA[i].COLUMN_NAME))
              /\ UnknownType(RowsOfSA[i]) <=> ret.value[i].type = NULLTYPE
        /\ Len(warnings) = Len(SelectSeq(RowsOfSA, UnknownType))
        /\ SelectSeq(ret.value, IsRecognized)
             = get_columns([catalog EXCEPT !.ALL_TAB_COLUMNS =
                                SelectSeq(@, KnownType)],
                           call.table_name, call.schema, call.kw).value

\* an unknown type between two known ones
C13_Witness ==
    /\ DirectColumns
    /\ Len(RowsOfSA) = 3
    /\ RowsOfSA[2].DATA_TYPE = <<"XMLTYPE">>
    /\ ret.value[1].type = TypeOf("CHAR", <<Some(5)>>)
    /\ ret.value[2].type = NULLTYPE
    /\ ret.value[3].type = TypeClass("DATE")
    /\ Len(warnings) = 1

\* the type compiler has rendered one of Integer, Numeric(p, s), CHAR(n)
CompiledType ==
    /\ rpc = "returned"
    /\ call.op = "type_compiler"
    /\ call.type.name \in {"INTEGER", "NUMERIC", "CHAR"}

\* the row of a column whose native type name is `native`, with the length,
\* precision and scale of the type t
NativeRow(native, t) ==
    TabColumn(N_SA, N_SS, Str(<<"A">>),
              TypeCell(<<native>>,
                       IF t.name = "CHAR" THEN t.args[1] ELSE Some(22),
                       IF t.name = "NUMERIC" THEN t.args[1] ELSE NoInt,
                       IF t.name = "NUMERIC" THEN t.args[2] ELSE NoInt),
              "Y", None)

\* the same type, a class standing for its instance without arguments
SameType(x, y) == x.name = y.name /\ x.args = y.args

Reflected(row) == column_of(row).cdict.type

\* C14 as claimed: reflecting a column whose native type name, with its
\* length, precision and scale, is what the type compiler emits for t gives
\* a type equal to t and never NULLTYPE, for t in Integer, Numeric(p, s) and
\* CHAR(n).
C14_Claimed ==
    CompiledType =>
        LET type == Reflected(NativeRow(Head(ret.value), call.type))
        IN  type # NULLTYPE /\ SameType(type, call.type)

\* C14, amended: the round trip holds for CHAR(n).  The names INTEGER and
\* NUMERIC that the type compiler emits for Integer and Numeric(p, s) are not
\* in ischema_names: a column of that native type name is reflected as
\* NULLTYPE with one warning.  The round trip of the two holds through the
\* NUMBER rows the dictionary keeps for them: NUMBER with null precision and
\* scale 0 is reflected as INTEGER, NUMBER with precision p and scale s, p
\* not null, as NUMERIC(p, s).
C14_RoundTripThroughNumber ==
    CompiledType =>
        LET t == call.type
            native == Head(ret.value)
            entry == column_of(NativeRow(native, t))
            AsNumber(p, sc) ==
                Reflected(TabColumn(N_SA, N_SS, Str(<<"A">>),
                                    TypeCell(<<"NUMBER">>, Some(22), p, sc),
                                    "Y", None))
        IN  /\ t.name = "CHAR" =>
                  /\ entry.cdict.type = t
                  /\ entry.warnings = <<>>
            /\ t.name \in {"INTEGER", "NUMERIC"} =>
                  /\ native = t.name
                  /\ entry.cdict.type = NULLTYPE
                  /\ Len(entry.warnings) = 1
            /\ t.name = "INTEGER" => SameType(AsNumber(NoInt, Some(0)), t)
            /\ (t.name = "NUMERIC" /\ ~IsNone(t.args[1])) =>
                  AsNumber(t.args[1], t.args[2]) = t

C14_Witness ==
    /\ CompiledType
    /\ call.type = TypeOf("NUMERIC", <<Some(9), Some(0)>>)
    /\ ret.value = <<"NUMERIC", "(9, 0)">>
    /\ Reflected(NativeRow("NUMERIC", call.type)) = NULLTYPE
    /\ Reflected(NativeRow("NUMBER", call.type)) = call.type

\* _resolve_synonym was called without an owner, with a synonym name or a
\* table name to look for, and has ended
ResolvedWithoutOwner ==
    /\ rpc \in {"returned", "raised"}
    /\ call.op = "_resolve_synonym"
    /\ call.desired_owner = None
    /\ call.desired_synonym # None \/ call.desired_table # None

\* the rows of ALL_SYNONYMS the query of the call matches
MatchedSynonyms ==
    {i \in DOMAIN catalog.ALL_SYNONYMS :
        LET row == catalog.ALL_SYNONYMS[i]
        IN  /\ call.desired_synonym # None =>
                  row.SYNONYM_NAME = call.desired_synonym
            /\ call.desired_table # None => row.TABLE_NAME = call.desired_table}

\* C15: called without an owner, _resolve_synonym returns four nulls when
\* its query matches no row, the (table, owner, dblink, synonym) of the row
\* when it matches one, and raises the ambiguity error, returning nothing,
\* when it matches more than one.
C15_SynonymWithoutOwner ==
    ResolvedWithoutOwner =>
        /\ MatchedSynonyms = {} =>
              rpc = "returned" /\ ret.value = <<None, None, None, None>>
        /\ \A i \in MatchedSynonyms :
              MatchedSynonyms = {i} =>
                  LET row == catalog.ALL_SYNONYMS[i]
                  IN  /\ rpc = "returned"
                      /\ ret.value = <<row.TABLE_NAME, row.TABLE_OWNER,
                                       row.DB_LINK, row.SYNONYM_NAME>>
        /\ Cardinality(MatchedSynonyms) > 1 =>
              /\ rpc = "raised"
              /\ ret.raised = "AssertionError"
              /\ ret.value = <<>>

\* two synonyms of one name, of two owners
C15_Witness ==
    /\ ResolvedWithoutOwner
    /\ call.desired_synonym = N_S1
    /\ catalog.ALL_SYNONYMS = <<Synonym(N_AA, N_S1, N_SS, N_SA, None),
                                Synonym(N_A1, N_S1, N_AA, N_SA, None)>>
    /\ rpc = "raised"
    /\ ret.raised = "AssertionError"

\* get_columns was called on a synonym's name with synonym resolution and no
\* schema, and has ended
ColumnsOfSynonym ==
    /\ rpc \in {"returned", "raised"}
    /\ call.op = "get_columns"
    /\ call.kw.oracle_resolve_synonyms
    /\ call.schema = None

\* the rows of ALL_SYNONYMS of the name the call was made on
SynonymsCalled ==
    {i \in DOMAIN catalog.ALL_SYNONYMS :
        PyEq(catalog.ALL_SYNONYMS[i].SYNONYM_NAME,
             denormalize_name(call.table_name))}

\* get_columns on the table the synonym row points at, by its owner
ColumnsOfTable(row) == get_columns(catalog, row.TABLE_NAME, row.TABLE_OWNER, NoKw)

\* C16 as claimed: for a synonym S that points at the table T of O,
\* get_columns on S with synonym resolution and no schema returns the list
\* get_columns on T with the schema O returns.
C16_Claimed ==
    ColumnsOfSynonym =>
        \A i \in SynonymsCalled :
            /\ rpc = "returned"
            /\ ret.value = ColumnsOfTable(catalog.ALL_SYNONYMS[i]).value

\* the dictionary keeps the name as it is written by the caller: it is not a
\* lower-case name, which denormalize_name takes for its upper-case form
KeptAsWritten(n) == PyEq(denormalize_name(n), n)

\* C16, amended: the two lists are identical (names, types, nullability,
\* defaults, order) when S is the only synonym of its name that is visible,
\* has no database link, and T and O are names denormalize_name leaves as
\* they are (not lower-case names).
C16_SynonymColumnsAsTable ==
    ColumnsOfSynonym =>
        \A i \in SynonymsCalled :
            LET row == catalog.ALL_SYNONYMS[i]
            IN  (/\ SynonymsCalled = {i}
                 /\ row.DB_LINK = None
                 /\ KeptAsWritten(row.TABLE_NAME)
                 /\ KeptAsWritten(row.TABLE_OWNER))
                => /\ rpc = "returned"
                   /\ ret.value = ColumnsOfTable(row).value
                   /\ warnings = ColumnsOfTable(row).warnings

C16_Witness ==
    /\ ColumnsOfSynonym
    /\ call.table_name = Unicode(<<"s", "1">>)
    /\ catalog.ALL_SYNONYMS = <<Synonym(N_AA, N_S1, N_SS, N_SA, None)>>
    /\ rpc = "returned"
    /\ Len(ret.value) = 2
    /\ ret.value[2].name = Unicode(<<"S", "a">>)
    /\ ret.value = get_columns(catalog, N_SA, N_SS, NoKw).value

(***************************************************************************)
(* Properties of the reflection of constraints and indexes.                *)
(***************************************************************************)
ForeignKeysReturned == call.op = "get_foreign_keys" /\ rpc = "returned"

\* the rows of the table's constraints, all of them of the table reflected
ConstraintRows == catalog.ALL_CONSTRAINTS

\* a row of a foreign key whose referenced column could be read
IsForeignKeyRow(row) ==
    row.constraint_type = "R" /\ row.remote_table # None

\* the field of the foreign key rows of the constraint cons_name, in row order
ColumnsOfConstraint(cons_name, field) ==
    LET Of(row) == IsForeignKeyRow(row) /\ row.constraint_name = cons_name
        rows == SelectSeq(ConstraintRows, Of)
    IN  [i \in DOMAIN rows |-> normalize_name(rows[i][field])]

ForeignKeyNames ==
    {ConstraintRows[i].constraint_name :
        i \in {j \in DOMAIN ConstraintRows :
                  IsForeignKeyRow(ConstraintRows[j])}}

\* C17: get_foreign_keys returns exactly one record for each constraint name
\* of the rows of type R (those whose remote table is not null), and none for
\* any other name; the record's constrained_columns and referred_columns are
\* the local and remote columns of the rows of that name, in the order of
\* the rows, so of equal length, whatever rows lie between them.
C17_ForeignKeysFolded ==
    ForeignKeysReturned =>
        /\ \A n \in ForeignKeyNames :
              Cardinality({rec \in ret.value : rec.name = n}) = 1
        /\ \A rec \in ret.value :
              /\ rec.name \in ForeignKeyNames
              /\ rec.constrained_columns =
                    ColumnsOfConstraint(rec.name, "local_column")
              /\ rec.referred_columns =
                    ColumnsOfConstraint(rec.name, "remote_column")
              /\ Len(rec.constrained_columns) = Len(rec.referred_columns)

\* a key on the columns ("Sa", A) referring to (S, A), its two rows apart
\* with a primary key row between them, and a second key
C17_Witness ==
    /\ ForeignKeysReturned
    /\ Len(ConstraintRows) = 3
    /\ ConstraintRows[1].constraint_name = ConstraintRows[3].constraint_name
    /\ ConstraintRows[2].constraint_type = "P"
    /\ \E rec \in ret.value :
          /\ rec.constrained_columns =
                <<Unicode(<<"S", "a">>), Unicode(<<"a">>)>>
          /\ rec.referred_columns = <<Unicode(<<"s">>), Unicode(<<"a">>)>>

ForeignKeysEnded == call.op = "get_foreign_keys" /\ rpc # "called"

\* a row of a foreign key whose remote table is null
IsUnreadableRow(row) ==
    row.constraint_type = "R" /\ row.remote_table = None

IsReadableRow(row) == ~IsUnreadableRow(row)

\* the dictionary without the foreign key rows whose remote table is null
ReadableCatalog ==
    [catalog EXCEPT !.ALL_CONSTRAINTS = SelectSeq(@, IsReadableRow)]

\* C18: get_foreign_keys does not raise on rows of type R whose remote table
\* is null; it gives one warning for each such row, in row order, and returns
\* the foreign keys it returns of the same rows without those: such a row
\* adds no record and no column, and the other keys are complete.
C18_NullRemoteTableSkipped ==
    ForeignKeysEnded =>
        /\ rpc = "returned"
        /\ Len(warnings) = Len(SelectSeq(ConstraintRows, IsUnreadableRow))
        /\ \A i \in DOMAIN warnings :
              warnings[i].text =
                  "Got 'None' querying 'table_name' from all_cons_columns"
        /\ ret.value = get_foreign_keys(ReadableCatalog, call.table_name,
                                        call.schema, call.kw).value
        /\ \A rec \in ret.value :
              /\ rec.referred_table # None
              /\ \E i \in DOMAIN ConstraintRows :
                    /\ ~IsUnreadableRow(ConstraintRows[i])
                    /\ ConstraintRows[i].constraint_name = rec.name

\* a foreign key of two columns returned whole, and between its rows a row
\* of another foreign key whose remote table is null
C18_Witness ==
    /\ ForeignKeysEnded
    /\ Len(ConstraintRows) = 3
    /\ IsUnreadableRow(ConstraintRows[2])
    /\ ConstraintRows[2].constraint_name # ConstraintRows[1].constraint_name
    /\ Len(warnings) = 1
    /\ Cardinality(ret.value) = 1
    /\ \E rec \in ret.value : Len(rec.constrained_columns) = 2

IndexesReturned == call.op = "get_indexes" /\ rpc = "returned"

IndexColumnRows == catalog.ALL_IND_COLUMNS

\* the columns of the table's primary key, as the dictionary names them
PrimaryKeyColumns ==
    {catalog.ALL_CONSTRAINTS[i].local_column :
        i \in {j \in DOMAIN catalog.ALL_CONSTRAINTS :
                  catalog.ALL_CONSTRAINTS[j].constraint_type = "P"}}

\* the columns of the rows of the index that are not of the primary key, in
\* row order
SecondaryColumns(index_name) ==
    LET Of(row) == /\ row.INDEX_NAME = index_name
                   /\ row.COLUMN_NAME \notin PrimaryKeyColumns
        rows == SelectSeq(IndexColumnRows, Of)
    IN  [i \in DOMAIN rows |-> normalize_name(rows[i].COLUMN_NAME)]

\* C19: get_indexes returns one index record for each index name of the
\* rows, whose column_names are the columns of the rows of that name in row
\* order without the columns of the table's primary key, so that no index
\* returned contains a primary key column, whatever the case of the column
\* names in the dictionary.
C19_Claimed ==
    IndexesReturned =>
        /\ \A i, j \in DOMAIN ret.value :
              ret.value[i].name = ret.value[j].name => i = j
        /\ \A i \in DOMAIN ret.value :
              \E k \in DOMAIN IndexColumnRows :
                 /\ ret.value[i].name =
                        normalize_name(IndexColumnRows[k].INDEX_NAME)
                 /\ ret.value[i].column_names =
                        SecondaryColumns(IndexColumnRows[k].INDEX_NAME)
        /\ \A i \in DOMAIN ret.value :
              \A k \in DOMAIN ret.value[i].column_names :
                 \A pk \in PrimaryKeyColumns :
                    ret.value[i].column_names[k] # normalize_name(pk)

CascadesEnded == call.op = "define_constraint_cascades" /\ rpc # "called"

\* C20: define_constraint_cascades returns " ON DELETE " followed by the
\* constraint's ondelete as it is when ondelete is set and the empty string
\* when it is not, so never a text of ON UPDATE; it gives one warning when
\* onupdate is set and none when it is not, and does not raise.
C20_CascadesRendered ==
    CascadesEnded =>
        /\ rpc = "returned"
        /\ Concat(ret.value) =
              IF IsNone(call.constraint.ondelete) THEN ""
              ELSE " ON DELETE " \o call.constraint.ondelete[1]
        /\ \A i \in DOMAIN ret.value : ret.value[i] # " ON UPDATE "
        /\ Len(warnings) = IF IsNone(call.constraint.onupdate) THEN 0 ELSE 1

\* ON DELETE CASCADE rendered of a constraint that has ON UPDATE CASCADE too
C20_Witness ==
    /\ CascadesEnded
    /\ call.constraint = [ondelete |-> <<"CASCADE">>, onupdate |-> <<"CASCADE">>]
    /\ Concat(ret.value) = " ON DELETE CASCADE"
    /\ Len(warnings) = 1

(***************************************************************************)
(* Properties of the pagination hint and of the marks of visit_select.     *)
(***************************************************************************)
\* the selects emitted: the wrappers from the outermost one, and the select
\* they are around
RECURSIVE Chain(_, _)
Chain(h, s) ==
    IF IsWrapperSelect(h[s]) THEN {s} \cup Chain(h, Inner(h, s)) ELSE {s}

\* the wrapper directly around the select that is not a wrapper
InnermostWrapper(h, s) ==
    IsWrapperSelect(h[s]) /\ ~IsWrapperSelect(h[Inner(h, s)])

Hints == {FirstRows(n) : n \in 0..MaxLimit}

\* the hint FIRST_ROWS(L) is on the innermost wrapper and once in the text
\* when hinted, and on no select and nowhere in the text when not
HintExactlyWhen(hinted) ==
    /\ \A s \in Chain(heap, emitted) :
          heap[s].prefixes =
              IF hinted /\ InnermostWrapper(heap, s)
              THEN <<FirstRows(Orig._limit[1])>> ELSE <<>>
    /\ \A i \in DOMAIN text :
          text[i] \in Hints => hinted /\ text[i] = FirstRows(Orig._limit[1])
    /\ Cardinality({i \in DOMAIN text : text[i] \in Hints}) =
          IF hinted THEN 1 ELSE 0

\* C24 as claimed: the hint FIRST_ROWS(L) is on the innermost wrapper only,
\* exactly when optimize_limits is set and the select has a limit L, L = 0
\* included.
C24_Claimed ==
    Done => HintExactlyWhen(dialect.optimize_limits /\ ~IsNone(Orig._limit))

\* C24: the hint FIRST_ROWS(L) is on the innermost wrapper only, exactly when
\* optimize_limits is set and the select has a limit L other than 0; there
\* is no hint with optimize_limits off, with an offset alone, or with L = 0.
C24_HintWhenLimitNotZero ==
    Done => HintExactlyWhen(dialect.optimize_limits /\ ~IsNone(Orig._limit)
                                /\ Orig._limit # Some(0))

\* the hint on the inner of two wrappers, once in the text
C24_Witness ==
    /\ Done
    /\ dialect.optimize_limits
    /\ Orig._limit = Some(2)
    /\ Orig._offset = Some(1)
    /\ heap[Inner(heap, emitted)].prefixes = <<FirstRows(2)>>
    /\ heap[emitted].prefixes = <<>>
    /\ Count(text, FirstRows(2)) = 1

\* C29: a select with an offset O and no limit is emitted in two wrapper
\* levels: the inner one selects the original columns and ROWNUM labelled
\* ora_rn and has no WHERE clause, so no upper bound on ROWNUM, the outer one
\* filters ora_rn > O, and no FIRST_ROWS hint is on any select or in the text.
C29_OffsetOnlyWrapsTwice ==
    (Done /\ IsNone(Orig._limit) /\ ~IsNone(Orig._offset)) =>
        LET outer == emitted
            inner == Inner(heap, outer)
        IN  /\ Levels(heap, emitted) = 2
            /\ heap[inner].columns =
                   c(Orig) \o <<Label("ora_rn", literal_column("ROWNUM"))>>
            /\ heap[inner].whereclause = <<>>
            /\ \A o \in DOMAIN heap :
                  heap[o].kind = "binary" =>
                      heap[o].left # literal_column("ROWNUM")
            /\ "<=" \notin Range(text)
            /\ Filters(heap, outer) = {OraRnAbove(Orig._offset[1])}
            /\ \A s \in Chain(heap, emitted) : heap[s].prefixes = <<>>
            /\ \A i \in DOMAIN text : text[i] \notin Hints

\* the offset 2 alone with optimize_limits on
C29_Witness ==
    /\ Done
    /\ dialect.optimize_limits
    /\ IsNone(Orig._limit)
    /\ Orig._offset = Some(2)
    /\ Levels(heap, emitted) = 2
    /\ Filters(heap, emitted) = {OraRnAbove(2)}
    /\ "ora_rn" \in Range(text)

\* the rewrites of the call are over: `select` is what is handed on
Rewritten == pc \in {"emit", "done"}

\* visit_select entered again on the select s rewrites nothing
LeftAsItIs(s) == Rewrite(heap, s, dialect) = [heap |-> heap, select |-> s]

\* no select is rewritten twice
RewrittenOnce ==
    /\ Count(phases, "JoinRewrite") <= 1
    /\ Count(phases, "PaginationRewrite") <= 1
    /\ \A o \in DOMAIN heap \ DOMAIN saved :
          heap[o].kind = "select" => heap[o]._oracle_visit
    /\ Rewritten =>
          /\ \A s \in Chain(heap, select) : LeftAsItIs(s)
          /\ Levels(heap, select) <= 2
          /\ Levels(heap, select) > 0 => HasLimitOrOffset(Orig)
          /\ LET w == heap[Core(heap, select)].whereclause
                 after == [i \in DOMAIN w |-> Untag(heap[w[i]])]
                 ons == OnBinaries(OrigJoins)
             IN  IF dialect.use_ansi THEN after = OrigWhere
                 ELSE /\ Len(after) = Len(OrigWhere) + Len(ons)
                      /\ \A b \in Range(ons) :
                            Count(after, b) = Count(OrigWhere \o ons, b)

\* C28: in one compile call each rewrite happens once at most; every select
\* a rewrite makes (the copies and the wrappers) is marked _oracle_visit, so
\* that visit_select entered again on a select it hands on rewrites nothing;
\* the ON conditions are in the WHERE clause once; there are two wrapper
\* levels at most, and only of a select with a limit or an offset; and the
\* call ends.
C28_NoSelectRewrittenTwice == [](RewrittenOnce) /\ <>Done

\* both rewrites have acted and the text is out: the wrappers and the copy
\* they are around are marked
C28_Witness ==
    /\ Done
    /\ phases = <<"Start", "JoinRewrite", "PaginationRewrite", "Emit">>
    /\ Levels(heap, emitted) = 2
    /\ \A s \in Chain(heap, emitted) : heap[s]._oracle_visit /\ LeftAsItIs(s)
    /\ Len(heap[Core(heap, emitted)].whereclause) > Len(Orig.whereclause)

(***************************************************************************)
(* Properties of the warning blocks of testing/assertions.py               *)
(***************************************************************************)
\* the three module globals are None
GlobalsReset == IsNone(_FILTERS) /\ IsNone(_SEEN) /\ IsNone(_EXC_CLS)

\* the three module globals are set
GlobalsSet == ~IsNone(_FILTERS) /\ ~IsNone(_SEEN) /\ ~IsNone(_EXC_CLS)

\* the messages given to the blocks entered since the outermost entry
GivenMessages == {g.message : g \in given}

\* C30: _FILTERS, _SEEN and _EXC_CLS are non-None exactly while an outermost
\* _expect_warnings block is active, whatever blocks were entered and left
\* inside it and however its body ended, and they hold nothing of an
\* earlier outermost block: the filters are those of the messages given
\* since the outermost entry, and the messages not seen are among them.
C30_GlobalsSetWhileActive ==
    /\ (blocks = <<>>) => GlobalsReset
    /\ (blocks # <<>>) =>
          /\ GlobalsSet
          /\ Range(_FILTERS[1]) = GivenMessages
          /\ _SEEN[1] \subseteq GivenMessages
          /\ Len(_EXC_CLS[1]) >= Len(blocks)

\* an exception of the body has left a nested block and then the outermost
\* one, and the globals are None again
C30_Witness ==
    /\ blocks = <<>>
    /\ exc = "Error"
    /\ GlobalsReset
    /\ \E g \in given : \E h \in given : g.assert_ # h.assert_

\* C27: as claimed, an AssertionError for messages that were not seen is
\* never raised because of the messages of a block entered with
\* assert_ = False: every message it names was given to a block that
\* asserts.
C27_Claimed ==
    (exc = "AssertionError" /\ unseen # {}) =>
        \A msg \in unseen : \E g \in given : g.message = msg /\ g.assert_

(***************************************************************************)
(* Properties of a session of reflection                                   *)
(***************************************************************************)
\* the call that has ended, as history keeps it
Ended == history[Len(history)]

\* the synonym lookup of the arguments is not asked for, or gives no link
NoLinkFound(table_name, schema, resolve_synonyms) ==
    \/ ~resolve_synonyms
    \/ LET syn == _resolve_synonym(catalog, denormalize_name(schema),
                                   denormalize_name(table_name), None)
       IN  syn.raised = "" /\ ~NameTruthy(syn.value[3])

\* C22: as claimed, a call with a dblink whose synonym resolution is off or
\* finds no link reads the views of that link: _prepare_reflection_args
\* returns the caller's dblink, and get_columns reads ALL_TAB_COLUMNS with
\* the caller's dblink after its name.
C22_Claimed ==
    /\ (/\ rpc = "returned"
        /\ call.op = "_prepare_reflection_args"
        /\ NoLinkFound(call.table_name, call.schema, call.resolve_synonyms))
          => ret.value.dblink = call.dblink
    /\ (/\ rpc \in {"returned", "raised"}
        /\ call.op = "get_columns"
        /\ NoLinkFound(call.table_name, call.schema,
                       call.kw.oracle_resolve_synonyms)
        /\ Ended.queries # <<>>
        /\ Ended.queries[Len(Ended.queries)].view = "ALL_TAB_COLUMNS")
          => Ended.queries[Len(Ended.queries)].dblink = call.kw.dblink

\* the methods that reflect a table or a view
TableMethods ==
    {"get_columns", "get_indexes", "get_primary_keys", "get_foreign_keys",
     "get_view_definition"}

\* the table, owner and link a statement on a view of tables is made with
ReadWith(q) ==
    <<q.params.table_name,
      IF "owner" \in DOMAIN q.params THEN q.params.owner ELSE q.params.schema,
      q.dblink>>

\* what the synonym lookup of the call's table and schema resolves them to
ResolvedArgs ==
    _prepare_reflection_args(catalog, call.table_name, call.schema, TRUE,
                             NoLink).value

\* C21: as claimed, each of get_columns, get_indexes, get_primary_keys,
\* get_foreign_keys and get_view_definition called with the reflection
\* option oracle_resolve_synonyms executes the synonym lookup first, and
\* its statement on the catalog view is made with the table, the owner and
\* the link the lookup resolved.
C21_Claimed ==
    (/\ rpc \in {"returned", "raised"}
     /\ call.op \in TableMethods
     /\ call.kw.oracle_resolve_synonyms
     /\ IsNone(catalog.fails))
      => /\ Ended.queries[1].view = "ALL_SYNONYMS"
         /\ \A i \in DOMAIN Ended.queries :
               Ended.queries[i].view
                    \in {"ALL_TAB_COLUMNS", "ALL_IND_COLUMNS",
                         "ALL_CONSTRAINTS", "ALL_VIEWS"}
                 => \/ ReadWith(Ended.queries[i])
                         = <<ResolvedArgs.table_name, ResolvedArgs.owner,
                             ResolvedArgs.dblink>>
                    \/ ReadWith(Ended.queries[i])
                         = <<denormalize_name(ResolvedArgs.table_name),
                             denormalize_name(ResolvedArgs.owner),
                             ResolvedArgs.dblink>>

\* as C21 claims, of the three methods that read the option
C21_OfKwReaders ==
    call.op \in {"get_columns", "get_primary_keys", "get_foreign_keys"}
        => C21_Claimed

\* the statements the call executes on a connection that fails none
StatementsOf(cat, made) ==
    CASE made.op = "get_columns" ->
            queries_get_columns(cat, made.table_name, made.schema, made.kw)
      [] made.op = "get_primary_keys" ->
            queries_get_primary_keys(cat, made.table_name, made.schema, made.kw)
      [] made.op = "get_foreign_keys" ->
            queries_get_foreign_keys(cat, made.table_name, made.schema, made.kw)
      [] made.op = "get_indexes" ->
            queries_get_indexes(cat, made.table_name, made.schema,
                                made.resolve_synonyms, made.dblink)
      [] made.op = "get_view_definition" ->
            queries_get_view_definition(cat, made.table_name, made.schema,
                                        made.resolve_synonyms, made.dblink)
      [] made.op = "_prepare_reflection_args" ->
            queries__prepare_reflection_args(cat, made.table_name, made.schema,
                                             made.resolve_synonyms, made.dblink)
      [] made.op = "has_table" -> queries_has_table(cat, made.table_name, made.schema)
      [] made.op = "has_sequence" ->
            queries_has_sequence(cat, made.table_name, made.schema)
      [] made.op = "get_schema_names" -> queries_get_schema_names
      [] made.op = "get_table_names" -> queries_get_table_names(cat, made.schema)
      [] made.op = "get_view_names" -> queries_get_view_names(cat, made.schema)

\* the connection fails a statement that the call comes to
FailureMet ==
    /\ ~IsNone(catalog.fails)
    /\ catalog.fails[1] <= Len(StatementsOf(catalog, call))

Normalized(n) ==
    /\ n.type = "unicode"
    /\ ~(upper(n.chars) = n.chars /\ ~_requires_quotes(lower(n.chars)))

\* the owner whose tables or views the call lists
ListedOwner == denormalize_name(schema_or_default(catalog, call.schema))

\* the users Oracle maintains
Maintained ==
    {catalog.ALL_USERS[i].USERNAME : i \in
        {j \in DOMAIN catalog.ALL_USERS :
            catalog.ALL_USERS[j].ORACLE_MAINTAINED = "Y"}}

\* a listing has returned
Listed(op) == rpc = "returned" /\ call.op = op

\* C25, as claimed: the three listings leave out the system schemas, each
\* in the same way: get_schema_names returns no user that Oracle
\* maintains, and get_table_names and get_view_names return nothing of the
\* schema of such a user.
C25_Claimed ==
    /\ Listed("get_schema_names") =>
          \A i \in DOMAIN ret.value :
              \A u \in Maintained : ret.value[i] # normalize_name(u)
    /\ (Listed("get_table_names") /\ ListedOwner \in Maintained) =>
          ret.value = <<>>
    /\ (Listed("get_view_names") /\ ListedOwner \in Maintained) =>
          ret.value = <<>>

\* C25: the three listings return normalized names only.  get_table_names
\* returns the tables of the schema that are stored outside the
\* tablespaces SYSTEM and SYSAUX, whoever owns them; get_schema_names
\* returns every user of ALL_USERS and get_view_names every view of the
\* schema, and neither leaves a system schema out.
C25_ListingsAsSelected ==
    /\ (rpc = "returned"
        /\ call.op \in {"get_schema_names", "get_table_names",
                        "get_view_names"})
          => \A i \in DOMAIN ret.value : Normalized(ret.value[i])
    /\ Listed("get_schema_names") =>
          Range(ret.value)
            = {normalize_name(catalog.ALL_USERS[i].USERNAME) :
                  i \in DOMAIN catalog.ALL_USERS}
    /\ Listed("get_table_names") =>
          Range(ret.value)
            = {normalize_name(catalog.ALL_TABLES[i].TABLE_NAME) : i \in
                  {j \in DOMAIN catalog.ALL_TABLES :
                      /\ catalog.ALL_TABLES[j].OWNER = ListedOwner
                      /\ catalog.ALL_TABLES[j].TABLESPACE_NAME
                            \notin {<<"SYSTEM">>, <<"SYSAUX">>}}}
    /\ Listed("get_view_names") =>
          Range(ret.value)
            = {normalize_name(catalog.ALL_VIEWS[i].VIEW_NAME) : i \in
                  {j \in DOMAIN catalog.ALL_VIEWS :
                      catalog.ALL_VIEWS[j].OWNER = ListedOwner}}

\* get_table_names has listed the schema SS, which Oracle maintains, and
\* left out its table of the tablespace SYSTEM
C25_Witness ==
    /\ Listed("get_table_names")
    /\ ListedOwner \in Maintained
    /\ ret.value = <<Unicode(lower(N_SA.chars))>>
    /\ \E i \in DOMAIN catalog.ALL_TABLES :
          /\ catalog.ALL_TABLES[i].OWNER = ListedOwner
          /\ catalog.ALL_TABLES[i].TABLESPACE_NAME = <<"SYSTEM">>

=============================================================================
